---- MODULE Spec2Model ----
(***************************************************************************)
(* Model of the comic2kindle backend: the capacity batcher                 *)
(* (services/merger.py), the package assembler's result list               *)
(* (services/converter.py) and the conversion job state machine            *)
(* (api/routes/convert.py).                                                *)
(***************************************************************************)
EXTENDS Integers, Sequences, FiniteSets, TLC

VARIABLES
    mg,        \* call frame of one MergerService.merge_images call
    jobs,      \* convert.py `jobs`: job id -> ConversionJob record
    run,       \* job id -> local state of that job's _run_conversion task
    log,       \* job id -> the kwargs of every _update_job call, in order
    session,   \* the upload session directory: [exists, files]
    disk,      \* package files present in the session's output directory
    uuids,     \* job ids uuid.uuid4() has not handed out yet
    cv,        \* call frame of one ConverterService call
    up         \* frame of one upload_files request and the event loop under it

vars == <<mg, jobs, run, log, session, disk, uuids, cv, up>>

\* Optional[T]: None is the empty set, a value x is {x}.
Null == {}
Some(x) == {x}

(***************************************************************************)
(* Bounds of the model.                                                    *)
(***************************************************************************)
MaxPages == 4
MaxFiles == 2
MaxFilePages == 2
MaxParts == 3

(***************************************************************************)
(* Program constants.                                                      *)
(***************************************************************************)
EpubOverhead == 50000
MaxOutputFileSize == 200000000

\* Per-page estimates (CachedImageInfo.estimated_output_size) used as inputs:
\* 500 is the estimate of an empty file, 60000 of an 85001-byte page.
Estimates == {500, 60000, 120000}
\* max_size_bytes arguments used as inputs; 0 is falsy and selects the default.
MaxBytesSet == {0, 60000, 100000, 111000}

(***************************************************************************)
(* Sequence helpers.                                                       *)
(***************************************************************************)
RECURSIVE Flatten(_)
Flatten(lists) ==
    IF lists = <<>> THEN <<>> ELSE Head(lists) \o Flatten(Tail(lists))

Reverse(s) == [i \in 1..Len(s) |-> s[Len(s) + 1 - i]]

\* Python slice s[a:b] with 0 <= a, b (0-based, end exclusive).
Slice(s, a, b) ==
    LET hi == IF b > Len(s) THEN Len(s) ELSE b
    IN  IF a >= hi THEN <<>> ELSE SubSeq(s, a + 1, hi)

(***************************************************************************)
(* MergerService (services/merger.py).                                     *)
(* A page is a record [id, est]: id is the identity of the Path, est the   *)
(* estimated_output_size the image cache holds for it.                     *)
(***************************************************************************)
EstimateSingleImageSize(image_path) == image_path.est

\* Body of the for loop of calculate_split_points for the page at 0-based
\* index idx; st = [split_points, current_batch, current_size].
SplitStepNoReset(st, idx, image_path, max_size) ==
    LET image_size == EstimateSingleImageSize(image_path)
    IN  IF st.current_size + image_size > max_size /\ st.current_batch # <<>>
        THEN [split_points  |-> Append(st.split_points, idx),
              current_batch |-> <<image_path>>,
              current_size  |-> EpubOverhead]
        ELSE [split_points  |-> st.split_points,
              current_batch |-> Append(st.current_batch, image_path),
              current_size  |-> st.current_size + image_size]

SplitStepStartsAtLimit(st, idx, image_path, max_size) ==
    LET image_size == EstimateSingleImageSize(image_path)
    IN  IF st.current_size + image_size >= max_size /\ st.current_batch # <<>>
        THEN [split_points  |-> Append(st.split_points, idx),
              current_batch |-> <<image_path>>,
              current_size  |-> EpubOverhead + image_size]
        ELSE [split_points  |-> st.split_points,
              current_batch |-> Append(st.current_batch, image_path),
              current_size  |-> st.current_size + image_size]

SplitStepResetDropsOverhead(st, idx, image_path, max_size) ==
    LET image_size == EstimateSingleImageSize(image_path)
    IN  IF st.current_size + image_size > max_size /\ st.current_batch # <<>>
        THEN [split_points  |-> Append(st.split_points, idx),
              current_batch |-> <<image_path>>,
              current_size  |-> image_size]
        ELSE [split_points  |-> st.split_points,
              current_batch |-> Append(st.current_batch, image_path),
              current_size  |-> st.current_size + image_size]

SplitStep(st, idx, image_path, max_size) ==
    LET image_size == EstimateSingleImageSize(image_path)
    IN  IF st.current_size + image_size > max_size /\ st.current_batch # <<>>
        THEN [split_points  |-> Append(st.split_points, idx),
              current_batch |-> <<image_path>>,
              current_size  |-> EpubOverhead + image_size]
        ELSE [split_points  |-> st.split_points,
              current_batch |-> Append(st.current_batch, image_path),
              current_size  |-> st.current_size + image_size]

SplitInit ==
    [split_points |-> <<>>, current_batch |-> <<>>, current_size |-> EpubOverhead]

CalculateSplitPoints(images, max_size) ==
    LET RECURSIVE Go(_)
        Go(n) == IF n = 0 THEN SplitInit
                 ELSE SplitStep(Go(n - 1), n - 1, images[n], max_size)
    IN  IF images = <<>> THEN <<>> ELSE Go(Len(images)).split_points

\* Body of the `for point in split_points` loop of merge_images;
\* bs = [batches, prev_point].
BatchStepDropFirst(bs, all_images, point) ==
    LET batch == Slice(all_images, bs.prev_point + 1, point)
    IN  [batches    |-> IF batch # <<>> THEN Append(bs.batches, batch)
                        ELSE bs.batches,
         prev_point |-> point]

BatchStep(bs, all_images, point) ==
    LET batch == Slice(all_images, bs.prev_point, point)
    IN  [batches    |-> IF batch # <<>> THEN Append(bs.batches, batch)
                        ELSE bs.batches,
         prev_point |-> point]

\* Lines 124-132 of merge_images: the remaining images and the fallback.
BatchFinish(bs, all_images) ==
    LET withRest == IF bs.prev_point < Len(all_images)
                    THEN Append(bs.batches,
                                Slice(all_images, bs.prev_point, Len(all_images)))
                    ELSE bs.batches
    IN  IF withRest = <<>> THEN <<all_images>> ELSE withRest

\* `max_size_bytes or self.max_output_size`: callers pass an int, and 0 is
\* falsy.
EffectiveMaxSize(max_size_bytes) ==
    IF max_size_bytes = 0 THEN MaxOutputFileSize ELSE max_size_bytes

MergeImages(image_lists, max_size_bytes) ==
    LET max_size     == EffectiveMaxSize(max_size_bytes)
        all_images   == Flatten(image_lists)
        split_points == CalculateSplitPoints(all_images, max_size)
        RECURSIVE Go(_)
        Go(k) == IF k = 0 THEN [batches |-> <<>>, prev_point |-> 0]
                 ELSE BatchStep(Go(k - 1), all_images, split_points[k])
    IN  IF all_images = <<>> THEN <<>>
        ELSE BatchFinish(Go(Len(split_points)), all_images)

(***************************************************************************)
(* One merge_images call, statement by statement.                          *)
(***************************************************************************)
MgIdle == [pc |-> "idle"]

\* No ConverterService call and no upload request is under way.
CvIdle == [pc |-> "idle"]
UpIdle == [pc |-> "idle", executing |-> Null]

\* Pages numbered from `first` with the given estimates.
MkPages(ests, first) ==
    [i \in 1..Len(ests) |-> [id |-> first + i - 1, est |-> ests[i]]]

SeqsUpTo(S, n) == UNION {[1..k -> S] : k \in 0..n}

\* The page lists a caller can pass: up to MaxPages pages, given as two
\* lists (either of which may be empty).
ImageListInputs ==
    {<<SubSeq(MkPages(e, 1), 1, c), SubSeq(MkPages(e, 1), c + 1, Len(e))>> :
        <<e, c>> \in {ec \in SeqsUpTo(Estimates, MaxPages) \X (0..MaxPages) :
                        ec[2] <= Len(ec[1])}}

MergeImagesCall(image_lists, max_size_bytes) ==
    [pc             |-> "flatten",
     image_lists    |-> image_lists,
     max_size_bytes |-> max_size_bytes]

\* merge_images lines 101-112: default size, flatten, early return.
MergeImagesBegin ==
    /\ mg.pc = "flatten"
    /\ LET all_images == Flatten(mg.image_lists)
           base == [image_lists    |-> mg.image_lists,
                    max_size_bytes |-> mg.max_size_bytes,
                    max_size       |-> EffectiveMaxSize(mg.max_size_bytes),
                    all_images     |-> all_images,
                    idx            |-> 0,
                    st             |-> SplitInit,
                    k              |-> 0,
                    bs             |-> [batches |-> <<>>, prev_point |-> 0],
                    result         |-> <<>>]
       IN  mg' = IF all_images = <<>>
                 THEN base @@ [pc |-> "done"]
                 ELSE base @@ [pc |-> "split"]
    /\ UNCHANGED <<cv, up, jobs, run, log, session, disk, uuids>>

\* One iteration of the for loop of calculate_split_points.
CalculateSplitPointsStep ==
    /\ mg.pc = "split"
    /\ mg.idx < Len(mg.all_images)
    /\ mg' = [mg EXCEPT
                !.st  = SplitStep(@, mg.idx, mg.all_images[mg.idx + 1], mg.max_size),
                !.idx = @ + 1]
    /\ UNCHANGED <<cv, up, jobs, run, log, session, disk, uuids>>

\* calculate_split_points returns its split_points.
CalculateSplitPointsReturn ==
    /\ mg.pc = "split"
    /\ mg.idx = Len(mg.all_images)
    /\ mg' = [mg EXCEPT !.pc = "batch"]
    /\ UNCHANGED <<cv, up, jobs, run, log, session, disk, uuids>>

\* One iteration of `for point in split_points` in merge_images.
MergeImagesBatchStep ==
    /\ mg.pc = "batch"
    /\ mg.k < Len(mg.st.split_points)
    /\ mg' = [mg EXCEPT
                !.bs = BatchStep(@, mg.all_images, mg.st.split_points[mg.k + 1]),
                !.k  = @ + 1]
    /\ UNCHANGED <<cv, up, jobs, run, log, session, disk, uuids>>

\* merge_images lines 124-132.
MergeImagesReturn ==
    /\ mg.pc = "batch"
    /\ mg.k = Len(mg.st.split_points)
    /\ mg' = [mg EXCEPT !.result = BatchFinish(mg.bs, mg.all_images),
                        !.pc = "done"]
    /\ UNCHANGED <<cv, up, jobs, run, log, session, disk, uuids>>

InitBatcher ==
    /\ mg \in {MergeImagesCall(l, m) : l \in ImageListInputs, m \in MaxBytesSet}
    /\ jobs = <<>>
    /\ run = <<>>
    /\ log = <<>>
    /\ session = [exists |-> FALSE, files |-> {}]
    /\ disk = {}
    /\ uuids = {}
    /\ cv = CvIdle
    /\ up = UpIdle

NextBatcher ==
    \/ MergeImagesBegin
    \/ CalculateSplitPointsStep
    \/ CalculateSplitPointsReturn
    \/ MergeImagesBatchStep
    \/ MergeImagesReturn

SpecBatcher == InitBatcher /\ [][NextBatcher]_vars

FairSpecBatcher == SpecBatcher /\ WF_vars(NextBatcher)

(***************************************************************************)
(* ConverterService (services/converter.py): which files a convert call    *)
(* returns and which it leaves on disk.  A package is [base, ext]; the     *)
(* base filename is [chapter, part] (part 0: no _partNN suffix).           *)
(***************************************************************************)
OutputFormats == {"epub", "mobi", "both"}

Package(filename, ext) == [base |-> filename, ext |-> ext]

InList(x, s) == \E i \in 1..Len(s) : s[i] = x

\* list.remove(x): the list without the first x; raises ValueError if absent.
ListRemove(s, x) ==
    IF InList(x, s)
    THEN LET i == CHOOSE k \in 1..Len(s) :
                    s[k] = x /\ \A m \in 1..(k - 1) : s[m] # x
         IN  [raised |-> FALSE, list |-> SubSeq(s, 1, i - 1) \o SubSeq(s, i + 1, Len(s))]
    ELSE [raised |-> TRUE, list |-> s]

\* convert() after create_epub succeeded; mobi_ok says whether
\* convert_to_mobi returns (TRUE) or raises ValueError (FALSE).
\* Result: raised = an exception leaves the call, files = the returned list,
\* kept = the packages the call wrote and left on disk, in the order written,
\* unlinked = the files it deleted.
\* convert() with the ValueError of convert_to_mobi left uncaught.
ConvertMobiFailurePropagates(filename, output_format, mobi_ok) ==
    LET epub_path == Package(filename, "epub")
        mobi_path == Package(filename, "mobi")
        wants_epub == output_format \in {"epub", "both"}
        wants_mobi == output_format \in {"mobi", "both"}
        of0 == IF wants_epub THEN <<epub_path>> ELSE <<>>
        \* the except ValueError branch, entered with the list as it stands
        Fallback(of) == IF ~InList(epub_path, of) THEN Append(of, epub_path) ELSE of
        of1 == Append(of0, mobi_path)
        rem == ListRemove(of1, epub_path)
        only_mobi == output_format = "mobi"
    IN  IF ~wants_mobi
        THEN [raised |-> FALSE, files |-> of0, kept |-> <<epub_path>>,
              unlinked |-> {}]
        ELSE IF ~mobi_ok
        THEN [raised |-> TRUE, files |-> of0, kept |-> <<epub_path>>,
              unlinked |-> {}]
        ELSE IF ~only_mobi
        THEN [raised |-> FALSE, files |-> of1, kept |-> <<epub_path, mobi_path>>,
              unlinked |-> {}]
        ELSE [raised   |-> FALSE,
              files    |-> IF rem.raised THEN Fallback(of1) ELSE rem.list,
              kept     |-> <<mobi_path>>,
              unlinked |-> {epub_path}]

\* convert() whose except branch does not append the EPUB.
ConvertNoFallback(filename, output_format, mobi_ok) ==
    LET epub_path == Package(filename, "epub")
        mobi_path == Package(filename, "mobi")
        wants_epub == output_format \in {"epub", "both"}
        wants_mobi == output_format \in {"mobi", "both"}
        of0 == IF wants_epub THEN <<epub_path>> ELSE <<>>
        \* the except ValueError branch, entered with the list as it stands
        Fallback(of) == IF ~InList(epub_path, of) THEN Append(of, epub_path) ELSE of
        of1 == Append(of0, mobi_path)
        rem == ListRemove(of1, epub_path)
        only_mobi == output_format = "mobi"
    IN  IF ~wants_mobi
        THEN [raised |-> FALSE, files |-> of0, kept |-> <<epub_path>>,
              unlinked |-> {}]
        ELSE IF ~mobi_ok
        THEN [raised |-> FALSE, files |-> of0, kept |-> <<epub_path>>,
              unlinked |-> {}]
        ELSE IF ~only_mobi
        THEN [raised |-> FALSE, files |-> of1, kept |-> <<epub_path, mobi_path>>,
              unlinked |-> {}]
        ELSE [raised   |-> FALSE,
              files    |-> IF rem.raised THEN Fallback(of1) ELSE rem.list,
              kept     |-> <<mobi_path>>,
              unlinked |-> {epub_path}]

Convert(filename, output_format, mobi_ok) ==
    LET epub_path == Package(filename, "epub")
        mobi_path == Package(filename, "mobi")
        wants_epub == output_format \in {"epub", "both"}
        wants_mobi == output_format \in {"mobi", "both"}
        of0 == IF wants_epub THEN <<epub_path>> ELSE <<>>
        \* the except ValueError branch, entered with the list as it stands
        Fallback(of) == IF ~InList(epub_path, of) THEN Append(of, epub_path) ELSE of
        of1 == Append(of0, mobi_path)
        rem == ListRemove(of1, epub_path)
        only_mobi == output_format = "mobi"
    IN  IF ~wants_mobi
        THEN [raised |-> FALSE, files |-> of0, kept |-> <<epub_path>>,
              unlinked |-> {}]
        ELSE IF ~mobi_ok
        THEN [raised |-> FALSE, files |-> Fallback(of0), kept |-> <<epub_path>>,
              unlinked |-> {}]
        ELSE IF ~only_mobi
        THEN [raised |-> FALSE, files |-> of1, kept |-> <<epub_path, mobi_path>>,
              unlinked |-> {}]
        ELSE [raised   |-> FALSE,
              files    |-> IF rem.raised THEN Fallback(of1) ELSE rem.list,
              kept     |-> <<mobi_path>>,
              unlinked |-> {epub_path}]

\* What one convert() call can do: create_epub raises, or the EPUB is written
\* and the MOBI transcode (when requested) succeeds or fails.
ConvertOutcomes(output_format) ==
    IF output_format = "epub" THEN {"raise", "ok"}
    ELSE {"raise", "ok", "mobi_fail"}

\* History record of one convert() call: what it was asked to write, what
\* happened inside it, and what it gave back to its caller.
ConvertCall(filename, outcome, r) ==
    [filename |-> filename,
     outcome  |-> outcome,
     raised   |-> outcome = "raise" \/ r.raised,
     files    |-> IF outcome = "raise" \/ r.raised THEN <<>> ELSE r.files]

\* What n convert() calls in a row can do: no call is made after the one
\* that raises, so the entries after the first "raise" are "raise" too.
CallOutcomes(n, output_format) ==
    {o \in [1..n -> ConvertOutcomes(output_format)] :
        \A k \in 1..n : o[k] = "raise" => \A m \in k..n : o[m] = "raise"}

PartFilenameAlwaysSuffixed(filename, part_num, total_parts) ==
    [filename EXCEPT !.part = part_num]

PartFilename(filename, part_num, total_parts) ==
    IF total_parts > 1 THEN [filename EXCEPT !.part = part_num] ELSE filename

\* convert_merged: the batches are converted in order; outcomes[k] is what
\* the k-th convert() call does.  The call raises at the first batch whose
\* convert() raises; the packages of the batches before it stay on disk.
ConvertMerged(image_batches, output_format, filename, outcomes) ==
    LET total_parts == Len(image_batches)
        One(k) == Convert(PartFilename(filename, k, total_parts),
                          output_format, outcomes[k] = "ok")
        Call(k) == ConvertCall(PartFilename(filename, k, total_parts),
                               outcomes[k], One(k))
        RECURSIVE Go(_)
        Go(k) ==
            IF k = 0
            THEN [raised |-> FALSE, files |-> <<>>, kept |-> <<>>,
                  unlinked |-> {}, calls |-> <<>>]
            ELSE LET prev == Go(k - 1)
                 IN  IF prev.raised THEN prev
                     ELSE IF outcomes[k] = "raise" \/ One(k).raised
                     THEN [prev EXCEPT !.raised = TRUE,
                                       !.kept = IF outcomes[k] = "raise" THEN @
                                                ELSE @ \o One(k).kept,
                                       !.calls = Append(@, Call(k))]
                     ELSE [raised   |-> FALSE,
                           files    |-> prev.files \o One(k).files,
                           kept     |-> prev.kept \o One(k).kept,
                           unlinked |-> prev.unlinked \cup One(k).unlinked,
                           calls    |-> Append(prev.calls, Call(k))]
    IN  Go(total_parts)

SeqToSet(s) == {s[i] : i \in 1..Len(s)}

(***************************************************************************)
(* Titles (models/schemas.py, ConverterService.convert_merged).            *)
(* A string is a sequence of tokens: words, single spaces, punctuation     *)
(* and the placeholders of a title format.                                 *)
(***************************************************************************)
\* str(n) of a small non-negative int.
Str(n) == <<"0", "1", "2", "3", "4", "5", "6", "7", "8", "9">>[n + 1]

\* s.replace(old, new) for a one-token old.
Replace(s, old, new) ==
    Flatten([i \in 1..Len(s) |-> IF s[i] = old THEN new ELSE <<s[i]>>])

\* s.strip(): leading and trailing whitespace removed.
RECURSIVE LStrip(_)
LStrip(s) == IF s # <<>> /\ Head(s) = " " THEN LStrip(Tail(s)) ELSE s

Strip(s) == Reverse(LStrip(Reverse(LStrip(s))))

\* x or y for strings: the empty string is falsy.
StrOr(x, y) == IF x # <<>> THEN x ELSE y

\* ChapterInfo.format_chapter_string (whole-number chapters).
FormatChapterString(chapter_info) ==
    IF chapter_info.chapter_start # Null /\ chapter_info.chapter_end # Null
    THEN <<Str(CHOOSE c \in chapter_info.chapter_start : TRUE), "-",
           Str(CHOOSE c \in chapter_info.chapter_end : TRUE)>>
    ELSE IF chapter_info.chapter_start # Null
    THEN <<Str(CHOOSE c \in chapter_info.chapter_start : TRUE)>>
    ELSE <<>>

\* MangaMetadata.get_display_title.
GetDisplayTitle(metadata) ==
    LET chapter_str == StrOr(FormatChapterString(metadata.chapter_info), <<"1">>)
        volume_str == IF metadata.chapter_info.volume \notin {Null, Some(0)}
                      THEN <<"Vol.", " ",
                             Str(CHOOSE v \in metadata.chapter_info.volume : TRUE)>>
                      ELSE <<>>
        r1 == Replace(metadata.title_format, "{series}",
                      StrOr(metadata.series, metadata.title))
        r2 == Replace(r1, "{title}", metadata.title)
        r3 == Replace(r2, "{chapter}", chapter_str)
        r4 == Replace(r3, "{volume}", volume_str)
        r5 == Replace(r4, "{prefix}", metadata.chapter_info.title_prefix)
        r6 == Replace(r5, "{suffix}", metadata.chapter_info.title_suffix)
    IN  Strip(r6)

\* f" (Part {part_num}/{total_parts})" without its leading space.
PartSuffix(part_num, total_parts) ==
    <<"(Part", " ", Str(part_num), "/", Str(total_parts), ")">>

\* convert_merged lines 339-342: the metadata handed to convert() for part
\* part_num.
PartMetadata(metadata, part_num, total_parts) ==
    IF total_parts > 1
    THEN [metadata EXCEPT !.title = @ \o <<" ">> \o PartSuffix(part_num, total_parts)]
    ELSE metadata

\* create_epub lines 58-63: the title set on the book.
BookTitle(metadata) == GetDisplayTitle(metadata)

\* Title formats a request can carry; the first is the default of
\* MangaMetadata.title_format.
TitleFormats ==
    {<<"{series}", " ", "-", " ", "Ch.", " ", "{chapter}">>,
     <<"{title}">>,
     <<"{series}">>,
     <<"{title}", " ", "-", " ", "{volume}">>,
     <<"{prefix}", " ", "{title}", " ", "{suffix}">>}

MetadataInputs ==
    {[title        |-> t,
      series       |-> sr,
      title_format |-> f,
      chapter_info |-> [chapter_start |-> c, chapter_end |-> Null,
                        volume |-> Null, title_prefix |-> <<>>,
                        title_suffix |-> <<>>]] :
        t \in {<<"T">>, <<"My", " ", "Title">>}, sr \in {<<>>, <<"S">>},
        f \in TitleFormats, c \in {Null, Some(5)}}

\* One convert_merged call, batch by batch, as far as the titles of the
\* packages go: cv.titles[k] is the title set on the book of part k.
ConvertMergedCall(metadata, total_parts) ==
    [pc |-> "part", metadata |-> metadata, total_parts |-> total_parts,
     part_num |-> 1, titles |-> <<>>]

\* One iteration of `for part_num, images in enumerate(image_batches, 1)`.
ConvertMergedPart ==
    /\ cv.pc = "part"
    /\ cv.part_num <= cv.total_parts
    /\ cv' = [cv EXCEPT
                !.titles = Append(@, BookTitle(PartMetadata(cv.metadata,
                                        cv.part_num, cv.total_parts))),
                !.part_num = @ + 1]
    /\ UNCHANGED <<up, mg, jobs, run, log, session, disk, uuids>>

ConvertMergedReturn ==
    /\ cv.pc = "part"
    /\ cv.part_num > cv.total_parts
    /\ cv' = [cv EXCEPT !.pc = "done"]
    /\ UNCHANGED <<up, mg, jobs, run, log, session, disk, uuids>>

InitTitles ==
    /\ cv \in {ConvertMergedCall(md, n) : md \in MetadataInputs, n \in 1..MaxParts}
    /\ up = UpIdle
    /\ mg = MgIdle
    /\ jobs = <<>>
    /\ run = <<>>
    /\ log = <<>>
    /\ session = [exists |-> FALSE, files |-> {}]
    /\ disk = {}
    /\ uuids = {}

NextTitles ==
    \/ ConvertMergedPart
    \/ ConvertMergedReturn

SpecTitles == InitTitles /\ [][NextTitles]_vars

(***************************************************************************)
(* ConverterService.create_epub: parallel page processing and assembly.    *)
(* An image is a page id; the bytes a worker makes of image p are          *)
(* Processed(p).                                                           *)
(***************************************************************************)
Processed(p) == [jpeg_of |-> p]

\* The list process_batch hands back: one (index, bytes) pair per input
\* image, reassembled by index whatever order the workers finished in.
\* completed is the list of pairs in completion order.
RECURSIVE ReassembleByIndex(_, _)
ReassembleByIndex(completed, n) ==
    IF n = 0 THEN <<>>
    ELSE Append(ReassembleByIndex(completed, n - 1),
                completed[CHOOSE k \in 1..Len(completed) :
                                completed[k][1] = n - 1])

\* The image lists create_epub is called with: up to MaxPages images of one
\* extraction, in reading order or listed backwards by the caller.
CreateEpubInputs ==
    UNION {{[i \in 1..n |-> i], [i \in 1..n |-> n + 1 - i]} : n \in 0..MaxPages}

CreateEpubCall(images) ==
    [pc               |-> "process",
     images           |-> images,
     pending          |-> 0..(Len(images) - 1),
     completed        |-> <<>>,
     processed_images |-> <<>>,
     i                |-> 0,
     items            |-> {},
     chapters         |-> <<>>,
     spine            |-> <<>>]

\* A worker of the pool finishes the image at 0-based index idx.
ProcessBatchWorkerDone ==
    /\ cv.pc = "process"
    /\ \E idx \in cv.pending :
         cv' = [cv EXCEPT !.pending = @ \ {idx},
                          !.completed = Append(@, <<idx, Processed(cv.images[idx + 1])>>)]
    /\ UNCHANGED <<up, mg, jobs, run, log, session, disk, uuids>>

\* A worker fails on its image: the failure is fatal to the call.
ProcessBatchWorkerFails ==
    /\ cv.pc = "process"
    /\ cv.pending # {}
    /\ cv' = [cv EXCEPT !.pc = "raised"]
    /\ UNCHANGED <<up, mg, jobs, run, log, session, disk, uuids>>

\* process_batch returns (line 125); lines 130-131 start the assembly.
ProcessBatchReturn ==
    /\ cv.pc = "process"
    /\ cv.pending = {}
    /\ cv' = [cv EXCEPT
                !.processed_images = ReassembleByIndex(cv.completed, Len(cv.images)),
                !.spine = <<[doc |-> "nav", page_num |-> 0]>>,
                !.pc = "assemble"]
    /\ UNCHANGED <<up, mg, jobs, run, log, session, disk, uuids>>

\* Body of `for idx, image_content in processed_images` (lines 133-170);
\* st = [items, chapters, spine], entry = <<idx, image_content>>.
AssembleStepInsertsAfterNav(st, entry) ==
    LET page_num == entry[1] + 1
        image_item == [file_name |-> <<"images", page_num>>, content |-> entry[2]]
        chapter == [doc |-> "page", page_num |-> page_num]
    IN  [items    |-> st.items \cup {image_item},
         chapters |-> Append(st.chapters, chapter),
         spine    |-> <<Head(st.spine)>> \o <<chapter>> \o Tail(st.spine)]

AssembleStep(st, entry) ==
    LET page_num == entry[1] + 1
        image_item == [file_name |-> <<"images", page_num>>, content |-> entry[2]]
        chapter == [doc |-> "page", page_num |-> page_num]
    IN  [items    |-> st.items \cup {image_item},
         chapters |-> Append(st.chapters, chapter),
         spine    |-> Append(st.spine, chapter)]

CreateEpubAssembleStep ==
    /\ cv.pc = "assemble"
    /\ cv.i < Len(cv.processed_images)
    /\ LET st == AssembleStep([items |-> cv.items, chapters |-> cv.chapters,
                               spine |-> cv.spine],
                              cv.processed_images[cv.i + 1])
       IN  cv' = [cv EXCEPT !.items = st.items, !.chapters = st.chapters,
                            !.spine = st.spine, !.i = @ + 1]
    /\ UNCHANGED <<up, mg, jobs, run, log, session, disk, uuids>>

\* Lines 172-210: toc, spine and the package are written.
CreateEpubReturn ==
    /\ cv.pc = "assemble"
    /\ cv.i = Len(cv.processed_images)
    /\ cv' = [cv EXCEPT !.pc = "done"]
    /\ UNCHANGED <<up, mg, jobs, run, log, session, disk, uuids>>

InitEpub ==
    /\ cv \in {CreateEpubCall(images) : images \in CreateEpubInputs}
    /\ up = UpIdle
    /\ mg = MgIdle
    /\ jobs = <<>>
    /\ run = <<>>
    /\ log = <<>>
    /\ session = [exists |-> FALSE, files |-> {}]
    /\ disk = {}
    /\ uuids = {}

NextEpub ==
    \/ ProcessBatchWorkerDone
    \/ ProcessBatchWorkerFails
    \/ ProcessBatchReturn
    \/ CreateEpubAssembleStep
    \/ CreateEpubReturn

SpecEpub == InitEpub /\ [][NextEpub]_vars

(***************************************************************************)
(* The job registry and _update_job (api/routes/convert.py).               *)
(***************************************************************************)
\* progress is a float; it is kept as the exact fraction <<numerator,
\* denominator>>.
Rat(n, d) == <<n, d>>
RatLeq(a, b) == a[1] * b[2] <= b[1] * a[2]

ConversionJob(job_id) ==
    [job_id        |-> job_id,
     status        |-> "pending",
     progress      |-> Rat(0, 1),
     current_file  |-> Null,
     current_phase |-> <<"Starting">>,
     split_count   |-> 1,
     output_files  |-> <<>>,
     error         |-> Null,
     completed_at  |-> Null]

SetAttrs(job, kwargs) ==
    [f \in DOMAIN job |-> IF f \in DOMAIN kwargs THEN kwargs[f] ELSE job[f]]

UpdateJobNoError(js, job_id, kwargs) ==
    IF job_id \in DOMAIN js
    THEN [js EXCEPT ![job_id] =
            SetAttrs(@, [f \in DOMAIN kwargs \ {"error"} |-> kwargs[f]])]
    ELSE js

\* _update_job that looks at every record of the registry instead of the one
\* stored under job_id.
UpdateJobEveryRecord(js, job_id, kwargs) ==
    [k \in DOMAIN js |-> SetAttrs(js[k], kwargs)]

UpdateJob(js, job_id, kwargs) ==
    IF job_id \in DOMAIN js
    THEN [js EXCEPT ![job_id] = SetAttrs(@, kwargs)]
    ELSE js

\* A sequence of _update_job calls made by job j's task without an await in
\* between.
Updates(j, calls) ==
    LET RECURSIVE Go(_)
        Go(k) == IF k = 0 THEN jobs ELSE UpdateJob(Go(k - 1), j, calls[k])
    IN  /\ jobs' = Go(Len(calls))
        /\ log' = [log EXCEPT ![j] = @ \o calls]

Failed(err) ==
    [status |-> "failed", error |-> Some(err), current_phase |-> <<"Error">>]

Completed(output_files) ==
    [status        |-> "completed",
     progress      |-> Rat(100, 1),
     output_files  |-> output_files,
     completed_at  |-> Some("now"),
     current_file  |-> Null,
     current_phase |-> <<"Completed">>]

(***************************************************************************)
(* Inputs.                                                                 *)
(***************************************************************************)
FileIds == 1..MaxFiles

\* Estimate of an extracted page, in the range of the MB-sized budgets a
\* request can ask for: with a 1 MB budget two such pages fill a batch.
JobEstimates == {400000}
MaxOutputSizeMbSet == {0, 1}
ChapterStarts == {Null, Some(5)}

\* Results of ExtractorService.extract for the input at 0-based position idx
\* (each input is extracted into a directory of its own).
ExtractResults(idx) ==
    {MkPages(e, idx * MaxFilePages + 1) : e \in SeqsUpTo(JobEstimates, MaxFilePages)}

\* Requests name the first n uploaded files; file_order is absent or lists
\* the same ids in reverse.  max_output_size_mb is read in merge mode only,
\* so per-file requests carry one value of it.
Requests ==
    {[file_ids           |-> ids,
      file_order         |-> ord,
      merge_files        |-> m,
      output_format      |-> fmt,
      max_output_size_mb |-> mb,
      chapter_start      |-> ch] :
        <<ids, ord, m, mb>> \in
            {r \in {[i \in 1..n |-> i] : n \in 0..MaxFiles}
                    \X ({<<>>} \cup {Reverse([i \in 1..n |-> i]) : n \in 0..MaxFiles})
                    \X BOOLEAN \X MaxOutputSizeMbSet :
                /\ r[2] \in {<<>>, Reverse(r[1])}
                /\ r[3] \/ r[4] = 0},
        fmt \in OutputFormats, ch \in ChapterStarts}

\* _find_file_by_id: the entry of the session directory with that id.
\* _find_file_by_id that builds the path from the id without looking into
\* the session directory.
FindFileByIdNoLookup(file_id) == Some(file_id)

FindFileById(file_id) ==
    IF file_id \in session.files THEN Some(file_id) ELSE Null

(***************************************************************************)
(* start_conversion and the _run_conversion task of job j.                 *)
(***************************************************************************)
Task(request) ==
    [pc              |-> "start",
     request         |-> request,
     chapter_start   |-> request.chapter_start,  \* request.metadata.chapter_info
     file_ids        |-> <<>>,
     idx             |-> 0,
     file_path       |-> Null,
     images          |-> <<>>,     \* per-file mode: the pages being converted
     filename        |-> [chapter |-> 0, part |-> 0],
     output_files    |-> <<>>,
     all_image_lists |-> <<>>,
     image_batches   |-> <<>>,
     tmp             |-> FALSE,    \* a TemporaryDirectory is open
     exc             |-> Null,     \* the exception being propagated
     raised          |-> Null,     \* history: the first exception raised
     kept            |-> <<>>,     \* history: packages written and kept
     calls           |-> <<>>]     \* history: the convert() calls made

StartConversion(j, request) ==
    /\ j \in uuids
    /\ session.exists
    /\ (SeqToSet(request.file_ids) \cup SeqToSet(request.file_order))
            \subseteq session.files
    /\ jobs' = (j :> ConversionJob(j)) @@ jobs
    /\ run' = (j :> Task(request)) @@ run
    /\ log' = (j :> <<>>) @@ log
    /\ uuids' = uuids \ {j}
    /\ UNCHANGED <<cv, up, mg, session, disk>>

Running(j) == j \in DOMAIN run

Raise(j, err) ==
    [run[j] EXCEPT !.pc = "except", !.exc = Some(err),
                   !.raised = IF @ = Null THEN Some(err) ELSE @]

\* _run_conversion lines 69-101: directories, converter, file order, dispatch.
RunConversionSetup(j) ==
    /\ Running(j)
    /\ run[j].pc = "start"
    /\ \/ run' = [run EXCEPT ![j] = Raise(j, <<"setup failed">>)]
       \/ run' = [run EXCEPT ![j] =
                    [@ EXCEPT !.file_ids = IF run[j].request.file_order # <<>>
                                           THEN run[j].request.file_order
                                           ELSE run[j].request.file_ids,
                              !.pc = IF run[j].request.merge_files
                                     THEN "m_begin" ELSE "i_begin"]]
    /\ UNCHANGED <<cv, up, mg, jobs, log, session, disk, uuids>>

\* _run_conversion lines 103-111: the except handler.
RunConversionExceptKeepsStatus(j) ==
    /\ Running(j)
    /\ run[j].pc = "except"
    /\ Updates(j, <<[error |-> run[j].exc, current_phase |-> <<"Error">>]>>)
    /\ run' = [run EXCEPT ![j] = [@ EXCEPT !.pc = "done", !.exc = Null, !.tmp = FALSE]]
    /\ UNCHANGED <<cv, up, mg, session, disk, uuids>>

RunConversionExcept(j) ==
    /\ Running(j)
    /\ run[j].pc = "except"
    /\ Updates(j, <<[status |-> "failed", error |-> run[j].exc,
                     current_phase |-> <<"Error">>]>>)
    /\ run' = [run EXCEPT ![j] = [@ EXCEPT !.pc = "done", !.exc = Null, !.tmp = FALSE]]
    /\ UNCHANGED <<cv, up, mg, session, disk, uuids>>

\* Leaving a `with tempfile.TemporaryDirectory()` block on a return
\* statement: the cleanup either succeeds or raises into the handler.
TempDirExitOnReturn(j) ==
    /\ Running(j)
    /\ run[j].pc \in {"i_exit_return", "m_exit_return"}
    /\ \/ run' = [run EXCEPT ![j] = [@ EXCEPT !.pc = "done", !.tmp = FALSE]]
       \/ run' = [run EXCEPT ![j] = Raise(j, <<"cleanup failed">>)]
    /\ UNCHANGED <<cv, up, mg, jobs, log, session, disk, uuids>>

(***************************************************************************)
(* _run_individual_conversion.                                             *)
(***************************************************************************)
TotalFiles(j) == Len(run[j].file_ids)

\* Lines 124-131.
IndividualBegin(j) ==
    /\ Running(j)
    /\ run[j].pc = "i_begin"
    /\ Updates(j, <<[status |-> "extracting",
                     current_phase |-> <<"Extracting files">>]>>)
    /\ run' = [run EXCEPT ![j] = [@ EXCEPT !.output_files = <<>>, !.idx = 0,
                                           !.pc = "i_loop"]]
    /\ UNCHANGED <<cv, up, mg, session, disk, uuids>>

\* Loop head, lines 133-154 (up to the await of extract), or lines 215-223
\* once the list is exhausted.
IndividualLoop(j) ==
    /\ Running(j)
    /\ run[j].pc = "i_loop"
    /\ LET idx == run[j].idx
           total_files == TotalFiles(j)
       IN  IF idx = total_files
           THEN /\ Updates(j, <<Completed(run[j].output_files)>>)
                /\ run' = [run EXCEPT ![j] = [@ EXCEPT !.pc = "done"]]
           ELSE IF ~session.exists
           THEN \* session_dir.iterdir() raises FileNotFoundError
                /\ run' = [run EXCEPT ![j] = Raise(j, <<"No such directory">>)]
                /\ UNCHANGED <<jobs, log>>
           ELSE LET file_id == run[j].file_ids[idx + 1]
                    file_path == FindFileById(file_id)
                IN  IF file_path = Null
                    THEN /\ Updates(j, <<Failed(<<"File not found", file_id>>)>>)
                         /\ run' = [run EXCEPT ![j] = [@ EXCEPT !.pc = "done"]]
                    ELSE /\ Updates(j, <<[current_file  |-> file_path,
                                          current_phase |-> <<"Extracting", idx + 1, total_files>>,
                                          progress      |-> Rat(idx * 50, total_files)]>>)
                         /\ run' = [run EXCEPT ![j] =
                                      [@ EXCEPT !.file_path = file_path,
                                                !.tmp = TRUE,
                                                !.pc = "i_extract"]]
    /\ UNCHANGED <<cv, up, mg, session, disk, uuids>>

\* format_chapter_string() or str(idx + 1), for a chapter_start without
\* chapter_end.
ChapterStr(chapter_start, default) ==
    IF chapter_start = Null THEN default ELSE CHOOSE c \in chapter_start : TRUE

\* The await of extractor.extract returns or raises; lines 157-195.
IndividualExtract(j) ==
    /\ Running(j)
    /\ run[j].pc = "i_extract"
    /\ LET idx == run[j].idx
           total_files == TotalFiles(j)
           file_name == CHOOSE f \in run[j].file_path : TRUE
       IN  \/ /\ run' = [run EXCEPT ![j] = Raise(j, <<"extract failed">>)]
              /\ UNCHANGED <<jobs, log>>
           \/ \E images \in ExtractResults(idx) :
                IF images = <<>>
                THEN /\ Updates(j, <<Failed(<<"No images found in", file_name>>)>>)
                     /\ run' = [run EXCEPT ![j] =
                                  [@ EXCEPT !.images = images, !.pc = "i_exit_return"]]
                ELSE \* metadata.chapter_info is shared with request.metadata
                     \* (model_copy is shallow)
                     LET chapter_start == IF run[j].chapter_start = Null
                                          THEN Some(idx + 1)
                                          ELSE run[j].chapter_start
                     IN  /\ Updates(j, <<[status |-> "converting",
                                          current_phase |-> <<"Converting", idx + 1, total_files>>]>>)
                         /\ run' = [run EXCEPT ![j] =
                                      [@ EXCEPT !.images = images,
                                                !.chapter_start = chapter_start,
                                                !.filename = [chapter |-> ChapterStr(chapter_start, idx + 1),
                                                              part |-> 0],
                                                !.pc = "i_convert"]]
    /\ UNCHANGED <<cv, up, mg, session, disk, uuids>>

\* The await of converter.convert returns or raises; lines 199-208.
IndividualConvert(j) ==
    /\ Running(j)
    /\ run[j].pc = "i_convert"
    /\ \E outcome \in ConvertOutcomes(run[j].request.output_format) :
         LET r == Convert(run[j].filename, run[j].request.output_format,
                          outcome = "ok")
             call == ConvertCall(run[j].filename, outcome, r)
         IN  IF outcome = "raise"
             THEN /\ run' = [run EXCEPT ![j] =
                               [Raise(j, <<"convert failed">>) EXCEPT
                                    !.calls = Append(@, call)]]
                  /\ UNCHANGED disk
             ELSE IF r.raised
             THEN /\ run' = [run EXCEPT ![j] =
                               [Raise(j, <<"convert failed">>) EXCEPT
                                    !.kept = @ \o r.kept,
                                    !.calls = Append(@, call)]]
                  /\ disk' = (disk \cup SeqToSet(r.kept)) \ r.unlinked
             ELSE /\ run' = [run EXCEPT ![j] =
                               [@ EXCEPT !.output_files = @ \o r.files,
                                         !.kept = @ \o r.kept,
                                         !.calls = Append(@, call),
                                         !.images = <<>>,  \* not read again
                                         !.pc = "i_exit"]]
                  /\ disk' = (disk \cup SeqToSet(r.kept)) \ r.unlinked
    /\ UNCHANGED <<cv, up, mg, jobs, log, session, uuids>>

\* End of the with block and lines 210-213.
IndividualExit(j) ==
    /\ Running(j)
    /\ run[j].pc = "i_exit"
    /\ \/ /\ run' = [run EXCEPT ![j] = Raise(j, <<"cleanup failed">>)]
          /\ UNCHANGED <<jobs, log>>
       \/ /\ Updates(j, <<[progress |->
                             Rat(50 * TotalFiles(j) + (run[j].idx + 1) * 50,
                                 TotalFiles(j))]>>)
          /\ run' = [run EXCEPT ![j] = [@ EXCEPT !.idx = @ + 1, !.tmp = FALSE,
                                                 !.pc = "i_loop"]]
    /\ UNCHANGED <<cv, up, mg, session, disk, uuids>>

(***************************************************************************)
(* _run_merged_conversion.                                                 *)
(***************************************************************************)
\* Lines 237-248.
MergedBegin(j) ==
    /\ Running(j)
    /\ run[j].pc = "m_begin"
    /\ Updates(j, <<[status |-> "extracting",
                     current_phase |-> <<"Extracting files">>]>>)
    /\ run' = [run EXCEPT ![j] = [@ EXCEPT !.all_image_lists = <<>>, !.idx = 0,
                                           !.tmp = TRUE, !.pc = "m_loop"]]
    /\ UNCHANGED <<cv, up, mg, session, disk, uuids>>

\* `for idx, file_id in enumerate(file_ids)` (line 251) has no item left.
MergedLoopDoneOneEarly(idx, total_files) == idx + 1 >= total_files

MergedLoopDone(idx, total_files) == idx = total_files

\* Loop head, lines 251-273 (up to the await of extract), or lines 289-298
\* (up to the await of merge_images) once the list is exhausted.
MergedLoop(j) ==
    /\ Running(j)
    /\ run[j].pc = "m_loop"
    /\ LET idx == run[j].idx
           total_files == TotalFiles(j)
       IN  IF MergedLoopDone(idx, total_files)
           THEN /\ Updates(j, <<[status |-> "merging",
                                 current_phase |-> <<"Merging files">>,
                                 progress |-> Rat(35, 1)]>>)
                /\ run' = [run EXCEPT ![j] = [@ EXCEPT !.pc = "m_merge"]]
           ELSE IF ~session.exists
           THEN /\ run' = [run EXCEPT ![j] = Raise(j, <<"No such directory">>)]
                /\ UNCHANGED <<jobs, log>>
           ELSE LET file_id == run[j].file_ids[idx + 1]
                    file_path == FindFileById(file_id)
                IN  IF file_path = Null
                    THEN /\ Updates(j, <<Failed(<<"File not found", file_id>>)>>)
                         /\ run' = [run EXCEPT ![j] = [@ EXCEPT !.pc = "m_exit_return"]]
                    ELSE /\ Updates(j, <<[current_file  |-> file_path,
                                          current_phase |-> <<"Extracting", idx + 1, total_files>>,
                                          progress      |-> Rat(idx * 30, total_files)]>>)
                         /\ run' = [run EXCEPT ![j] =
                                      [@ EXCEPT !.file_path = file_path,
                                                !.pc = "m_extract"]]
    /\ UNCHANGED <<cv, up, mg, session, disk, uuids>>

\* The await of extractor.extract returns or raises; lines 273-286.
MergedExtract(j) ==
    /\ Running(j)
    /\ run[j].pc = "m_extract"
    /\ LET file_name == CHOOSE f \in run[j].file_path : TRUE
       IN  \/ /\ run' = [run EXCEPT ![j] = Raise(j, <<"extract failed">>)]
              /\ UNCHANGED <<jobs, log>>
           \/ \E images \in ExtractResults(run[j].idx) :
                IF images = <<>>
                THEN /\ Updates(j, <<Failed(<<"No images found in", file_name>>)>>)
                     /\ run' = [run EXCEPT ![j] = [@ EXCEPT !.pc = "m_exit_return"]]
                ELSE /\ run' = [run EXCEPT ![j] =
                                  [@ EXCEPT !.all_image_lists = Append(@, images),
                                            !.idx = @ + 1,
                                            !.pc = "m_loop"]]
                     /\ UNCHANGED <<jobs, log>>
    /\ UNCHANGED <<cv, up, mg, session, disk, uuids>>

\* The await of merger.merge_images returns or raises; lines 296-328.
MergedMerge(j) ==
    /\ Running(j)
    /\ run[j].pc = "m_merge"
    /\ \/ /\ run' = [run EXCEPT ![j] = Raise(j, <<"merge failed">>)]
          /\ UNCHANGED <<jobs, log>>
       \/ LET max_size == run[j].request.max_output_size_mb * 1024 * 1024
              image_batches == MergeImages(run[j].all_image_lists, max_size)
              split_count == Len(image_batches)
          IN  /\ Updates(j, <<[split_count |-> split_count,
                               current_phase |-> <<"Creating", split_count>>,
                               progress |-> Rat(40, 1)],
                              [status |-> "converting"]>>)
              /\ run' = [run EXCEPT ![j] =
                           [@ EXCEPT !.image_batches = image_batches,
                                     !.filename = [chapter |-> ChapterStr(run[j].chapter_start, 1),
                                                   part |-> 0],
                                     !.pc = "m_convert"]]
    /\ UNCHANGED <<cv, up, mg, session, disk, uuids>>

\* The await of converter.convert_merged returns or raises; lines 332-349.
MergedConvert(j) ==
    /\ Running(j)
    /\ run[j].pc = "m_convert"
    /\ \E outcomes \in CallOutcomes(Len(run[j].image_batches),
                                     run[j].request.output_format) :
         LET r == ConvertMerged(run[j].image_batches, run[j].request.output_format,
                                run[j].filename, outcomes)
         IN  /\ disk' = (disk \cup SeqToSet(r.kept)) \ r.unlinked
             /\ IF r.raised
                THEN /\ run' = [run EXCEPT ![j] =
                                  [Raise(j, <<"convert failed">>) EXCEPT
                                       !.kept = r.kept, !.calls = r.calls]]
                     /\ UNCHANGED <<jobs, log>>
                ELSE /\ Updates(j, <<Completed(r.files)>>)
                     /\ run' = [run EXCEPT ![j] =
                                  [@ EXCEPT !.output_files = r.files,
                                            !.kept = r.kept,
                                            !.calls = r.calls,
                                            !.pc = "m_exit"]]
    /\ UNCHANGED <<cv, up, mg, session, uuids>>

\* End of the with block of _run_merged_conversion after line 349: the
\* cleanup of the temporary directory succeeds or raises into the handler.
MergedExit(j) ==
    /\ Running(j)
    /\ run[j].pc = "m_exit"
    /\ \/ run' = [run EXCEPT ![j] = [@ EXCEPT !.pc = "done", !.tmp = FALSE]]
       \/ run' = [run EXCEPT ![j] = Raise(j, <<"cleanup failed">>)]
    /\ UNCHANGED <<cv, up, mg, jobs, log, session, disk, uuids>>

(***************************************************************************)
(* upload_files (api/routes/upload.py) and the event loop it runs on.      *)
(* An uploaded file is its kind: "archive", "image", or "invalid" (an      *)
(* extension outside ALLOWED_EXTENSIONS).  up.executing is the blocking    *)
(* call in progress, with the thread that runs it.                         *)
(***************************************************************************)
UploadKinds == {"archive", "image", "invalid"}

\* A call made directly in the body of a coroutine runs on the event loop.
DirectCall(op) == [op |-> op, thread |-> "loop"]

\* asyncio.to_thread(f, ...) runs f on a worker thread of the default pool.
ToThread(op) == [op |-> op, thread |-> "worker"]

UploadFilesCall(files) ==
    [pc            |-> "start",
     files         |-> files,
     archive_files |-> <<>>,
     image_files   |-> <<>>,
     k             |-> 0,
     saved_files   |-> <<>>,
     executing     |-> Null,
     polled        |-> FALSE]

\* Where the handler goes once the archive at 0-based position k is done or
\* there is none: the next archive, the images, or the response.
AfterArchive(archive_files, image_files, k) ==
    IF k < Len(archive_files) THEN "a_read"
    ELSE IF image_files # <<>> THEN "i_read"
    ELSE "return"

\* Lines 63-89: the empty check, the classification loop, create_session.
UploadValidate ==
    /\ up.pc = "start"
    /\ LET archive_files == SelectSeq(up.files, LAMBDA f : f = "archive")
           image_files == SelectSeq(up.files, LAMBDA f : f = "image")
       IN  IF up.files = <<>> \/ InList("invalid", up.files)
           THEN /\ up' = [up EXCEPT !.pc = "rejected"]
                /\ UNCHANGED session
           ELSE /\ up' = [up EXCEPT !.archive_files = archive_files,
                                    !.image_files = image_files,
                                    !.pc = AfterArchive(archive_files, image_files, 0)]
                /\ session' = [exists |-> TRUE, files |-> {}]
    /\ UNCHANGED <<cv, mg, jobs, run, log, disk, uuids>>

\* Line 97: `await upload_file.read()` returns or raises.
UploadArchiveRead ==
    /\ up.pc = "a_read"
    /\ \/ up' = [up EXCEPT !.pc = "a_save"]
       \/ up' = [up EXCEPT !.pc = "except"]
    /\ UNCHANGED <<cv, mg, jobs, run, log, session, disk, uuids>>

\* Lines 98-107: save_file stores the archive under a fresh id, or raises.
UploadArchiveSave ==
    /\ up.pc = "a_save"
    /\ \/ /\ up' = [up EXCEPT !.pc = "a_count"]
          /\ session' = [session EXCEPT !.files = @ \cup {up.k + 1}]
       \/ /\ up' = [up EXCEPT !.pc = "except"]
          /\ UNCHANGED session
    /\ UNCHANGED <<cv, mg, jobs, run, log, disk, uuids>>

\* Line 113: extractor.count_pages(file_path) is entered.
UploadCountPagesBegin ==
    /\ up.pc = "a_count"
    /\ up' = [up EXCEPT !.executing = Some(DirectCall("count_pages")),
                        !.pc = "a_counting"]
    /\ UNCHANGED <<cv, mg, jobs, run, log, session, disk, uuids>>

\* count_pages returns, or raises on an archive it cannot open.
UploadCountPagesEnd ==
    /\ up.pc = "a_counting"
    /\ \/ up' = [up EXCEPT !.executing = Null, !.pc = "a_preview"]
       \/ up' = [up EXCEPT !.executing = Null, !.pc = "except"]
    /\ UNCHANGED <<cv, mg, jobs, run, log, session, disk, uuids>>

\* Line 117: extractor.generate_preview(file_path, preview_path) is entered.
UploadPreviewBegin ==
    /\ up.pc = "a_preview"
    /\ up' = [up EXCEPT !.executing = Some(DirectCall("generate_preview")),
                        !.pc = "a_previewing"]
    /\ UNCHANGED <<cv, mg, jobs, run, log, session, disk, uuids>>

\* generate_preview returns a path or None (it swallows its exceptions);
\* lines 118-124.
UploadPreviewEnd ==
    /\ up.pc = "a_previewing"
    /\ \E preview \in BOOLEAN :
         up' = [up EXCEPT
                  !.executing = Null,
                  !.saved_files = Append(@, [id |-> up.k + 1, preview |-> preview]),
                  !.k = @ + 1,
                  !.pc = AfterArchive(up.archive_files, up.image_files, up.k + 1)]
    /\ UNCHANGED <<cv, mg, jobs, run, log, session, disk, uuids>>

\* Lines 127-157: the images are read and written into one folder, which
\* is the session entry with the next id; a read or a write may raise.
UploadImagesSave ==
    /\ up.pc = "i_read"
    /\ \/ /\ up' = [up EXCEPT !.pc = "i_preview"]
          /\ session' = [session EXCEPT !.files = @ \cup {Len(up.archive_files) + 1}]
       \/ /\ up' = [up EXCEPT !.pc = "except"]
          /\ UNCHANGED session
    /\ UNCHANGED <<cv, mg, jobs, run, log, disk, uuids>>

\* Lines 161-169: Image.open, thumbnail and save of the first image start.
UploadImagePreviewBegin ==
    /\ up.pc = "i_preview"
    /\ up' = [up EXCEPT !.executing = Some(DirectCall("thumbnail")),
                        !.pc = "i_previewing"]
    /\ UNCHANGED <<cv, mg, jobs, run, log, session, disk, uuids>>

\* Lines 170-193: the thumbnail is saved or the exception is passed over.
UploadImagePreviewEnd ==
    /\ up.pc = "i_previewing"
    /\ \E preview \in BOOLEAN :
         up' = [up EXCEPT
                  !.executing = Null,
                  !.saved_files = Append(@, [id |-> Len(up.archive_files) + 1,
                                             preview |-> preview]),
                  !.pc = "return"]
    /\ UNCHANGED <<cv, mg, jobs, run, log, session, disk, uuids>>

\* Lines 195-201: cleanup_session and the 500 response.
UploadExcept ==
    /\ up.pc = "except"
    /\ up' = [up EXCEPT !.pc = "failed"]
    /\ session' = [exists |-> FALSE, files |-> {}]
    /\ disk' = {}
    /\ UNCHANGED <<cv, mg, jobs, run, log, uuids>>

\* Lines 203-207.
UploadReturn ==
    /\ up.pc = "return"
    /\ up' = [up EXCEPT !.pc = "done"]
    /\ UNCHANGED <<cv, mg, jobs, run, log, session, disk, uuids>>

\* get_job_status (convert.py): the event loop answers a status poll; it
\* can do so only while no call is running on it.
GetJobStatus ==
    /\ up.pc # "idle"
    /\ \A b \in up.executing : b.thread # "loop"
    /\ ~up.polled
    /\ up' = [up EXCEPT !.polled = TRUE]
    /\ UNCHANGED <<cv, mg, jobs, run, log, session, disk, uuids>>

InitUpload ==
    /\ up \in {UploadFilesCall(files) : files \in SeqsUpTo(UploadKinds, MaxFiles)}
    /\ cv = CvIdle
    /\ mg = MgIdle
    /\ jobs = <<>>
    /\ run = <<>>
    /\ log = <<>>
    /\ session = [exists |-> FALSE, files |-> {}]
    /\ disk = {}
    /\ uuids = {}

NextUpload ==
    \/ UploadValidate
    \/ UploadArchiveRead
    \/ UploadArchiveSave
    \/ UploadCountPagesBegin
    \/ UploadCountPagesEnd
    \/ UploadPreviewBegin
    \/ UploadPreviewEnd
    \/ UploadImagesSave
    \/ UploadImagePreviewBegin
    \/ UploadImagePreviewEnd
    \/ UploadExcept
    \/ UploadReturn
    \/ GetJobStatus

SpecUpload == InitUpload /\ [][NextUpload]_vars

(***************************************************************************)
(* Session deletion (api/routes/upload.py).                                *)
(***************************************************************************)
DeleteFile(file_id) ==
    /\ session.exists
    /\ file_id \in session.files
    /\ session' = [session EXCEPT !.files = @ \ {file_id}]
    /\ UNCHANGED <<cv, up, mg, jobs, run, log, disk, uuids>>

\* delete_session -> FileManager.cleanup_session: the upload directory and
\* the output directory are removed.
DeleteSession ==
    /\ session.exists
    /\ session' = [exists |-> FALSE, files |-> {}]
    /\ disk' = {}
    /\ UNCHANGED <<cv, up, mg, jobs, run, log, uuids>>

(***************************************************************************)
(* The service: one session with its uploads, conversion requests, the     *)
(* steps of the jobs' tasks, deletions.                                    *)
(***************************************************************************)
JobIds == {"j1"}

Init ==
    /\ mg = MgIdle
    /\ jobs = <<>>
    /\ run = <<>>
    /\ log = <<>>
    /\ session = [exists |-> TRUE, files |-> FileIds]
    /\ disk = {}
    /\ uuids = JobIds
    /\ cv = CvIdle
    /\ up = UpIdle

TaskStep(j) ==
    \/ RunConversionSetup(j)
    \/ RunConversionExcept(j)
    \/ TempDirExitOnReturn(j)
    \/ IndividualBegin(j)
    \/ IndividualLoop(j)
    \/ IndividualExtract(j)
    \/ IndividualConvert(j)
    \/ IndividualExit(j)
    \/ MergedBegin(j)
    \/ MergedLoop(j)
    \/ MergedExtract(j)
    \/ MergedMerge(j)
    \/ MergedConvert(j)
    \/ MergedExit(j)

Next ==
    \/ \E j \in JobIds, request \in Requests : StartConversion(j, request)
    \/ \E j \in JobIds : TaskStep(j)
    \/ \E file_id \in FileIds : DeleteFile(file_id)
    \/ DeleteSession

Spec == Init /\ [][Next]_vars

\* Every started task is eventually run to its next await, and every awaited
\* call returns or raises.
FairSpec == Spec /\ \A j \in JobIds : WF_vars(TaskStep(j))

(***************************************************************************)
(* The same service with the requests narrowed to what the course of a job *)
(* depends on: inputs, mode, output format and size limit; upload order,   *)
(* no chapter number.                                                      *)
(***************************************************************************)
TerminationRequests ==
    {r \in Requests : r.file_order = <<>> /\ r.chapter_start = Null}

NextTermination ==
    \/ \E j \in JobIds, request \in TerminationRequests :
            StartConversion(j, request)
    \/ \E j \in JobIds : TaskStep(j)
    \/ \E file_id \in FileIds : DeleteFile(file_id)
    \/ DeleteSession

FairSpecTermination ==
    Init /\ [][NextTermination]_vars /\ \A j \in JobIds : WF_vars(TaskStep(j))

(***************************************************************************)
(* The same service with the requests narrowed to what input deletion      *)
(* depends on: the inputs named and the mode, EPUB output, upload order.   *)
(***************************************************************************)
DeletionRequests ==
    {r \in Requests : /\ r.file_order = <<>>
                      /\ r.output_format = "epub"
                      /\ r.max_output_size_mb = 0
                      /\ r.chapter_start = Null}

NextDeletion ==
    \/ \E j \in JobIds, request \in DeletionRequests : StartConversion(j, request)
    \/ \E j \in JobIds : TaskStep(j)
    \/ \E file_id \in FileIds : DeleteFile(file_id)
    \/ DeleteSession

FairSpecDeletion ==
    Init /\ [][NextDeletion]_vars /\ \A j \in JobIds : WF_vars(TaskStep(j))

(***************************************************************************)
(* Two conversion jobs started on the same session, their tasks            *)
(* interleaved at the awaits, and a status poll in between.                *)
(***************************************************************************)
TwoJobIds == {"j1", "j2"}

\* One-input requests, per-file or merged, EPUB output.
TwoJobRequests ==
    {r \in Requests : /\ r.file_ids = <<1>>
                      /\ r.file_order = <<>>
                      /\ r.output_format = "epub"
                      /\ r.max_output_size_mb = 0
                      /\ r.chapter_start = Null}

\* The event loop is serving the router of convert.py; one status poll is
\* yet to come.
Polling == [pc |-> "polling", executing |-> Null, polled |-> FALSE]

InitTwoJobs ==
    /\ mg = MgIdle
    /\ jobs = <<>>
    /\ run = <<>>
    /\ log = <<>>
    /\ session = [exists |-> TRUE, files |-> FileIds]
    /\ disk = {}
    /\ uuids = TwoJobIds
    /\ cv = CvIdle
    /\ up = Polling

NextTwoJobs ==
    \/ \E j \in TwoJobIds, request \in TwoJobRequests : StartConversion(j, request)
    \/ \E j \in TwoJobIds : TaskStep(j)
    \/ GetJobStatus

SpecTwoJobs == InitTwoJobs /\ [][NextTwoJobs]_vars

(***************************************************************************)
(* The size estimator of MergerService (services/merger.py): the per-page  *)
(* estimate, its cache, and the total over a page list.                    *)
(***************************************************************************)
MaxImageWidth == 1600
MaxImageHeight == 2400

\* Calls made to one MergerService in the cache specification.
MaxCalls == 3

RECURSIVE Log2Floor(_)
Log2Floor(n) == IF n < 2 THEN 0 ELSE 1 + Log2Floor(n \div 2)

RECURSIVE GCD(_, _)
GCD(a, b) == IF b = 0 THEN a ELSE GCD(b, a % b)

\* int(x * 0.7) in binary64 arithmetic.  The double nearest to 0.7 lies
\* below 7/10, so the product rounds to just under 7x/10 when that is an
\* integer in the upper part of its binade (x = 90 gives 62, x = 85000
\* gives 59499); everywhere else the result is floor(7x/10).
IntTimesCompression(x) ==
    LET n == (7 * x) \div 10
    IN  IF x > 0 /\ x % 10 = 0 /\ 4 * n > 7 * 2^Log2Floor(n)
        THEN n - 1
        ELSE n

\* The byte size after the downscale to max_image_width x max_image_height.
\* ratio = min(max_w / width, max_h / height) is kept as the fraction
\* rn / rd; the page dimensions used as inputs make every quotient a
\* power of two, which binary64 represents exactly.
AdjustedFileSizeWraps16(file_size, width, height) == file_size % 65536

AdjustedFileSize(file_size, width, height) ==
    IF width > MaxImageWidth \/ height > MaxImageHeight
    THEN LET byWidth == MaxImageWidth * height <= MaxImageHeight * width
             rn == IF byWidth THEN MaxImageWidth ELSE MaxImageHeight
             rd == IF byWidth THEN width ELSE height
             new_pixels == ((width * rn) \div rd) * ((height * rn) \div rd)
             original_pixels == width * height
             g == GCD(new_pixels, original_pixels)
         IN  (file_size * (new_pixels \div g)) \div (original_pixels \div g)
    ELSE file_size

CachedImageInfo(width, height, file_size, estimated_output_size) ==
    [width |-> width, height |-> height, file_size |-> file_size,
     estimated_output_size |-> estimated_output_size]

\* A MergerService: its _image_cache, and how often it has opened each path.
MergerService(paths) == [cache |-> <<>>, reads |-> [p \in paths |-> 0]]

\* _get_image_info(image_path), with `file` what is on disk under the path.
\* The result on a miss is cached only on the try branch; the fallback of
\* the except branch is returned without being stored.
GetImageInfo(svc, image_path, file) ==
    IF image_path \in DOMAIN svc.cache
    THEN [svc |-> svc, info |-> svc.cache[image_path]]
    ELSE LET read == [svc EXCEPT !.reads[image_path] = @ + 1]
         IN  IF file.decodable
             THEN LET info ==
                          CachedImageInfo(
                              file.width, file.height, file.file_size,
                              IntTimesCompression(
                                  AdjustedFileSize(file.file_size, file.width,
                                                   file.height)) + 500)
                  IN  [svc |-> [read EXCEPT
                                   !.cache = (image_path :> info) @@ @],
                       info |-> info]
             ELSE [svc |-> read,
                   info |-> CachedImageInfo(0, 0, file.file_size,
                                            file.file_size)]

RECURSIVE SumEstimates(_, _, _)
SumEstimates(svc, files, images) ==
    IF images = <<>>
    THEN [svc |-> svc, total |-> 0]
    ELSE LET r == GetImageInfo(svc, Head(images), files[Head(images)])
             rest == SumEstimates(r.svc, files, Tail(images))
         IN  [svc |-> rest.svc,
              total |-> r.info.estimated_output_size + rest.total]

\* estimate_output_size(images)
EstimateOutputSize(svc, files, images) ==
    LET s == SumEstimates(svc, files, images)
    IN  [svc |-> s.svc, total |-> EpubOverhead + s.total]

\* Pages on disk: byte sizes, pixel dimensions (one inside the limits, two
\* downscaled to a quarter and a sixteenth of the pixels), and whether
\* PIL can open the file.
PagePaths == {1, 2}
FileSizes == {89, 90, 1000, 65000, 85000}
PageDims == {<<800, 1200>>, <<3200, 2400>>, <<6400, 2400>>}
ImageFiles ==
    {[file_size |-> s, width |-> d[1], height |-> d[2], decodable |-> dec] :
        s \in FileSizes, d \in PageDims, dec \in BOOLEAN}

\* One MergerService answering _get_image_info requests.
GetImageInfoCall(p) ==
    /\ mg.pc = "cache"
    /\ mg.ncalls < MaxCalls
    /\ LET r == GetImageInfo(mg.svc, p, mg.files[p])
       IN  mg' = [mg EXCEPT !.svc = r.svc,
                            !.ncalls = @ + 1,
                            !.answers[p] = Append(@, r.info)]
    /\ UNCHANGED <<jobs, run, log, session, disk, uuids, cv, up>>

InitCache ==
    /\ mg \in {[pc |-> "cache", files |-> f, svc |-> MergerService(PagePaths),
                ncalls |-> 0, answers |-> [p \in PagePaths |-> <<>>]] :
                  f \in [PagePaths -> {x \in ImageFiles : x.file_size = 1000}]}
    /\ jobs = <<>>
    /\ run = <<>>
    /\ log = <<>>
    /\ session = [exists |-> FALSE, files |-> {}]
    /\ disk = {}
    /\ uuids = {}
    /\ cv = CvIdle
    /\ up = UpIdle

NextCache == \E p \in PagePaths : GetImageInfoCall(p)

SpecCache == InitCache /\ [][NextCache]_vars

(***************************************************************************)
(* estimate_output_size applied to a page list before and after one page's *)
(* file has grown on disk, each time by a new MergerService.               *)
(***************************************************************************)
EstimateInputs == {<<1>>, <<1, 2>>, <<2, 1, 1>>}

EstimateOutputSizeCall(which) ==
    /\ mg.pc = "estimate"
    /\ mg[which] = Null
    /\ LET files == IF which = "before" THEN mg.files ELSE mg.grown
           r == EstimateOutputSize(MergerService(PagePaths), files, mg.images)
       IN  mg' = [mg EXCEPT ![which] = Some(r.total)]
    /\ UNCHANGED <<jobs, run, log, session, disk, uuids, cv, up>>

InitEstimate ==
    /\ mg \in {[pc |-> "estimate", files |-> f, page |-> k,
                grown |-> [f EXCEPT ![k].file_size = s], images |-> i,
                before |-> Null, after |-> Null] :
                  f \in [PagePaths -> ImageFiles], k \in PagePaths,
                  s \in FileSizes, i \in EstimateInputs}
    /\ mg.grown[mg.page].file_size > mg.files[mg.page].file_size
    /\ jobs = <<>>
    /\ run = <<>>
    /\ log = <<>>
    /\ session = [exists |-> FALSE, files |-> {}]
    /\ disk = {}
    /\ uuids = {}
    /\ cv = CvIdle
    /\ up = UpIdle

NextEstimate == \E which \in {"before", "after"} : EstimateOutputSizeCall(which)

SpecEstimate == InitEstimate /\ [][NextEstimate]_vars

(***************************************************************************)
(* The image pipeline (services/image_processor.py): pixel dimensions of   *)
(* one page through process_pil_image.                                     *)
(***************************************************************************)
\* SPREAD_ASPECT_RATIO_THRESHOLD = 1.3, as the fraction 13/10.
SpreadAspectRatioThreshold == <<13, 10>>

UpscaleMethods == {"none", "lanczos", "ai_esrgan"}

\* DEVICE_SPECS, two of its entries.
DeviceSpecs ==
    [kindle_basic |-> <<600, 800>>, kindle_paperwhite_5 |-> <<1236, 1648>>]

\* DeviceProfileService.get_dimensions(profile, custom_width, custom_height);
\* the custom sizes are Optional, 0 is falsy like None.
GetDimensions(profile, custom_width, custom_height) ==
    IF profile = "custom"
    THEN IF custom_width # Null /\ custom_height # Null
            /\ custom_width # Some(0) /\ custom_height # Some(0)
         THEN <<CHOOSE w \in custom_width : TRUE,
                CHOOSE h \in custom_height : TRUE>>
         ELSE <<1236, 1648>>
    ELSE IF profile \in DOMAIN DeviceSpecs
         THEN DeviceSpecs[profile]
         ELSE <<1236, 1648>>

PILImage(width, height, rotation) ==
    [width |-> width, height |-> height, rotation |-> rotation]

\* The triples <<x, t, d>> among the ones the pipeline meets on the inputs
\* below for which the binary64 product x * (t / d) lies just under the
\* integer x * t / d, so that int() yields one less.
RoundsBelow ==
    {<<11, 15, 11>>, <<13, 15, 13>>, <<26, 15, 26>>, <<146, 1236, 146>>,
     <<219, 1236, 146>>, <<289, 800, 289>>}

\* int(x * scale) with scale = t / d.
IntScaled(x, t, d) ==
    LET e == (x * t) \div d
    IN  IF <<x, t, d>> \in RoundsBelow THEN e - 1 ELSE e

\* is_double_page_spread(img): img.width / img.height > 1.3
IsDoublePageSpreadAtThreshold(img) ==
    img.width * SpreadAspectRatioThreshold[2]
        >= img.height * SpreadAspectRatioThreshold[1]

IsDoublePageSpread(img) ==
    img.width * SpreadAspectRatioThreshold[2]
        > img.height * SpreadAspectRatioThreshold[1]

\* _rotate_spread(img): img.rotate(-90, expand=True); a negative angle turns
\* clockwise, and expand swaps the two dimensions.
RotateSpread(img) == PILImage(img.height, img.width, img.rotation - 90)

\* _upscale_lanczos(img): scale = max(target_w / w, target_h / h) is the
\* fraction t / d.
UpscaleLanczos(img, target) ==
    LET byWidth == target[1] * img.height >= target[2] * img.width
        t == IF byWidth THEN target[1] ELSE target[2]
        d == IF byWidth THEN img.width ELSE img.height
    IN  IF t <= d
        THEN img
        ELSE PILImage(IntScaled(img.width, t, d), IntScaled(img.height, t, d),
                      img.rotation)

\* What happens inside _upscale_ai: the import of AIUpscaler fails, or
\* is_available() is false, or upscale() raises RuntimeError, or it returns
\* the image at its default scale of 2.
AiOutcomes == {"import_error", "unavailable", "fails", "ok"}

\* _upscale_ai(img): the image, or the exception that leaves the function.
UpscaleAiFailureKeepsImage(img, target, ai) ==
    IF ai = "ok"
    THEN [raised |-> Null,
          img |-> PILImage(2 * img.width, 2 * img.height, img.rotation)]
    ELSE [raised |-> Null, img |-> img]

UpscaleAi(img, target, ai) ==
    IF ai = "import_error"
    THEN [raised |-> Null, img |-> UpscaleLanczos(img, target)]
    ELSE IF ai = "unavailable"
    THEN [raised |-> Null, img |-> UpscaleLanczos(img, target)]
    ELSE IF ai = "fails"
    THEN [raised |-> Some("RuntimeError"), img |-> img]
    ELSE [raised |-> Null,
          img |-> PILImage(2 * img.width, 2 * img.height, img.rotation)]

\* _upscale_if_needed(img)
UpscaleIfNeeded(img, target, upscale_method, ai) ==
    IF upscale_method = "none"
    THEN img
    ELSE IF ~(img.width < target[1] \/ img.height < target[2])
    THEN img
    ELSE IF upscale_method = "ai_esrgan"
    THEN LET r == UpscaleAi(img, target, ai)
         IN  IF r.raised # Null THEN UpscaleLanczos(img, target) ELSE r.img
    ELSE UpscaleLanczos(img, target)

\* _resize_to_fill(img): scale = min(target_w / w, target_h / h) is the
\* fraction t / d; Image.resize raises ValueError for a size below 1.
ResizeToFillCovers(img, target) ==
    LET byWidth == target[1] * img.height >= target[2] * img.width
        t == IF byWidth THEN target[1] ELSE target[2]
        d == IF byWidth THEN img.width ELSE img.height
    IN  [raised |-> Null,
         img |-> PILImage((img.width * t) \div d, (img.height * t) \div d,
                          img.rotation)]

ResizeToFill(img, target) ==
    LET byWidth == target[1] * img.height <= target[2] * img.width
        t == IF byWidth THEN target[1] ELSE target[2]
        d == IF byWidth THEN img.width ELSE img.height
        new_width == IntScaled(img.width, t, d)
        new_height == IntScaled(img.height, t, d)
    IN  IF new_width = img.width /\ new_height = img.height
        THEN [raised |-> Null, img |-> img]
        ELSE IF new_width < 1 \/ new_height < 1
        THEN [raised |-> Some("ValueError"), img |-> img]
        ELSE [raised |-> Null,
              img |-> PILImage(new_width, new_height, img.rotation)]

Abs(n) == IF n < 0 THEN 0 - n ELSE n

\* Image.thumbnail((x, y)): the size that preserves the aspect ratio w / h.
\* round_aspect picks, of floor and ceil of the exact quotient, the one
\* whose ratio is nearer to the aspect (floor on a tie), and at least 1.
ThumbnailSize(w, h, x, y) ==
    IF x >= w /\ y >= h
    THEN <<w, h>>
    ELSE IF x * h >= w * y
    THEN LET fl == (y * w) \div h
             ce == IF (y * w) % h = 0 THEN fl ELSE fl + 1
             n == IF Abs(w * y - fl * h) <= Abs(w * y - ce * h) THEN fl ELSE ce
         IN  <<IF n < 1 THEN 1 ELSE n, y>>
    ELSE LET fl == (x * h) \div w
             ce == IF (x * h) % w = 0 THEN fl ELSE fl + 1
             n == IF fl = 0 \/ Abs(w * fl - x * h) * ce
                                  <= Abs(w * ce - x * h) * fl
                  THEN fl ELSE ce
         IN  <<x, IF n < 1 THEN 1 ELSE n>>

\* _resize_to_fit(img)
ResizeToFit(img, target) ==
    IF img.width <= target[1] /\ img.height <= target[2]
    THEN img
    ELSE LET s == ThumbnailSize(img.width, img.height, target[1], target[2])
         IN  PILImage(s[1], s[2], img.rotation)

\* Pages given to the pipeline (width, height): at the spread threshold and
\* just above it, portrait pages below and above the screens, spreads, and
\* a one-pixel strip.
ImageSizes ==
    {<<13, 10>>, <<14, 10>>, <<10, 15>>, <<11, 20>>, <<3, 7>>, <<1, 3>>,
     <<20, 30>>, <<217, 289>>, <<300, 400>>, <<600, 800>>, <<1300, 1000>>,
     <<1200, 1600>>, <<1, 900>>, <<146, 219>>}

ImageProcessingOptions ==
    [device_profile : {"kindle_basic", "kindle_paperwhite_5", "custom"},
     custom_width : {Some(15)},
     custom_height : {Some(20)},
     upscale_method : UpscaleMethods,
     detect_spreads : BOOLEAN,
     rotate_spreads : BOOLEAN,
     fill_screen : BOOLEAN]

\* ImageProcessorService(options) about to run process_pil_image(img).
ProcessPilImageCall(size, options, ai) ==
    [pc |-> "rotate",
     options |-> options,
     target |-> GetDimensions(options.device_profile, options.custom_width,
                              options.custom_height),
     ai |-> ai,
     input |-> PILImage(size[1], size[2], 0),
     img |-> PILImage(size[1], size[2], 0),
     steps |-> <<>>,
     raised |-> Null]

StepDone(step, out) ==
    [cv EXCEPT !.img = out,
               !.steps = Append(@, [step |-> step, in |-> cv.img, out |-> out])]

\* Step 1: rotate a detected spread.
ProcessRotate ==
    /\ cv.pc = "rotate"
    /\ LET out == IF cv.options.detect_spreads /\ IsDoublePageSpread(cv.img)
                     /\ cv.options.rotate_spreads
                  THEN RotateSpread(cv.img)
                  ELSE cv.img
       IN  cv' = [StepDone("rotate", out) EXCEPT !.pc = "upscale"]
    /\ UNCHANGED <<mg, jobs, run, log, session, disk, uuids, up>>

\* Steps 2 and 3: the conversion to RGB leaves the size alone; upscale.
ProcessUpscale ==
    /\ cv.pc = "upscale"
    /\ LET out == UpscaleIfNeeded(cv.img, cv.target,
                                  cv.options.upscale_method, cv.ai)
       IN  cv' = [StepDone("upscale", out) EXCEPT !.pc = "resize"]
    /\ UNCHANGED <<mg, jobs, run, log, session, disk, uuids, up>>

\* Step 4: fill the screen, or fit within it.
ProcessResize ==
    /\ cv.pc = "resize"
    /\ LET r == IF cv.options.fill_screen
                THEN ResizeToFill(cv.img, cv.target)
                ELSE [raised |-> Null, img |-> ResizeToFit(cv.img, cv.target)]
       IN  cv' = IF r.raised # Null
                 THEN [cv EXCEPT !.pc = "raised", !.raised = r.raised]
                 ELSE [StepDone("resize", r.img) EXCEPT !.pc = "encode"]
    /\ UNCHANGED <<mg, jobs, run, log, session, disk, uuids, up>>

\* Step 5: encode to JPEG and return.
ProcessEncode ==
    /\ cv.pc = "encode"
    /\ cv' = [cv EXCEPT !.pc = "returned"]
    /\ UNCHANGED <<mg, jobs, run, log, session, disk, uuids, up>>

InitImage ==
    /\ mg = MgIdle
    /\ jobs = <<>>
    /\ run = <<>>
    /\ log = <<>>
    /\ session = [exists |-> FALSE, files |-> {}]
    /\ disk = {}
    /\ uuids = {}
    /\ cv \in {ProcessPilImageCall(s, o, a) :
                  s \in ImageSizes, o \in ImageProcessingOptions,
                  a \in AiOutcomes}
    /\ up = UpIdle

NextImage ==
    \/ ProcessRotate
    \/ ProcessUpscale
    \/ ProcessResize
    \/ ProcessEncode

SpecImage == InitImage /\ [][NextImage]_vars

(***************************************************************************)
(* Properties of the batcher.                                              *)
(***************************************************************************)
MgDone == mg.pc = "done"

\* Indices of the batches of the result that contain page p.
BatchesHolding(p) ==
    {b \in 1..Len(mg.result) :
        \E i \in 1..Len(mg.result[b]) : mg.result[b][i] = p}

\* C1: for a non-empty page sequence and any max_bytes, the batches returned
\* by merge_images concatenate, in order, to exactly the flattened input, and
\* no returned batch is empty.
C1_BatchesPartitionInput ==
    (MgDone /\ Flatten(mg.image_lists) # <<>>) =>
        /\ Flatten(mg.result) = Flatten(mg.image_lists)
        /\ \A b \in 1..Len(mg.result) : mg.result[b] # <<>>

C1_Witness ==
    /\ MgDone
    /\ Len(mg.all_images) >= 3
    /\ Len(mg.result) >= 2
    /\ mg.image_lists[1] # <<>>
    /\ mg.image_lists[2] # <<>>

\* A page whose own estimate exceeds the max_size given to
\* calculate_split_points.
Oversize(p) == EstimateSingleImageSize(p) > mg.max_size

C10_SingletonInv ==
    MgDone =>
        \A i \in 1..Len(mg.all_images) :
            Oversize(mg.all_images[i]) =>
                /\ Cardinality(BatchesHolding(mg.all_images[i])) = 1
                /\ \A b \in BatchesHolding(mg.all_images[i]) :
                        mg.result[b] = <<mg.all_images[i]>>

\* C10: a page whose own estimate exceeds max_bytes ends up in exactly one
\* batch, which holds only that page, wherever the page occurs; and the split
\* pass terminates.
C10_OversizePageSingleton == []C10_SingletonInv /\ <>MgDone

\* An oversize page in the middle of the sequence, between two small pages.
C10_Witness ==
    /\ MgDone
    /\ Len(mg.all_images) >= 3
    /\ Oversize(mg.all_images[2])
    /\ ~Oversize(mg.all_images[1])
    /\ ~Oversize(mg.all_images[3])
    /\ Len(mg.result) >= 3

\* 1-based positions in all_images at which a batch of the result starts.
BatchStarts ==
    {1 + Len(Flatten(SubSeq(mg.result, 1, b - 1))) : b \in 1..Len(mg.result)}

\* Sum of the estimates of the pages at positions a..b of all_images.
RECURSIVE EstSum(_, _)
EstSum(a, b) ==
    IF a > b THEN 0
    ELSE EstimateSingleImageSize(mg.all_images[b]) + EstSum(a, b - 1)

\* Start of the batch that is open when the page at position p is reached.
OpenBatchStart(p) ==
    CHOOSE s \in BatchStarts :
        s < p /\ \A t \in BatchStarts : t < p => t <= s

\* C11: the batcher is one greedy left-to-right pass with 50,000 bytes of
\* overhead per batch: a batch starts at page p exactly when the size of the
\* open batch (overhead included) plus the estimate of p exceeds max_bytes,
\* the open batch holding at least one page; estimates <<60000, 500, 500>>
\* with max_bytes 100000 give the batches <<page 1>>, <<page 2, page 3>>.
C11_GreedySplit ==
    (MgDone /\ mg.all_images # <<>>) =>
        /\ 1 \in BatchStarts
        /\ \A p \in 2..Len(mg.all_images) :
              p \in BatchStarts <=>
                50000 + EstSum(OpenBatchStart(p), p - 1)
                      + EstimateSingleImageSize(mg.all_images[p]) > mg.max_size
        /\ ([i \in 1..Len(mg.all_images) |-> mg.all_images[i].est]
                  = <<60000, 500, 500>> /\ mg.max_size = 100000) =>
              mg.result = << <<mg.all_images[1]>>,
                             <<mg.all_images[2], mg.all_images[3]>> >>

C11_Witness ==
    /\ MgDone
    /\ [i \in 1..Len(mg.all_images) |-> mg.all_images[i].est]
            = <<60000, 500, 500>>
    /\ mg.max_size = 100000
    /\ Len(mg.result) = 2

\* The statement-by-statement call and the operator agree.
MgResultIsMergeImages ==
    MgDone => mg.result = MergeImages(mg.image_lists, mg.max_size_bytes)

(***************************************************************************)
(* Properties of the conversion jobs.                                      *)
(***************************************************************************)
Terminal == {"completed", "failed"}

MergeJob(j) == run[j].request.merge_files

\* The positions of job j's log whose _update_job call sets field f.
Writes(j, f) == {k \in 1..Len(log[j]) : f \in DOMAIN log[j][k]}

\* The status values written by job j's first n calls, in order.
StatusWrites(j, n) ==
    LET RECURSIVE Go(_)
        Go(k) == IF k = 0 THEN <<>>
                 ELSE IF k \in Writes(j, "status")
                      THEN Append(Go(k - 1), log[j][k].status)
                      ELSE Go(k - 1)
    IN  Go(n)

\* C2: within a job every progress value written to the record is greater
\* than or equal to every progress value written to it earlier.
C2_ProgressMonotonic ==
    \A j \in DOMAIN log :
        \A a, b \in Writes(j, "progress") :
            a < b => RatLeq(log[j][a].progress, log[j][b].progress)

\* C3: once a job's status is Completed or Failed, no later step of its run
\* changes the status.
C3_TerminalStatusStays ==
    [][\A j \in DOMAIN jobs :
          jobs[j].status \in Terminal => jobs'[j].status = jobs[j].status]_vars

\* C4: in per-file mode the status is Extracting while any input is being
\* extracted and Converting while it is being packaged, and Completed is
\* reached only after the last input has been packaged.
C4_PerFilePhasesPerInput ==
    \A j \in DOMAIN run :
        ~MergeJob(j) =>
            /\ run[j].pc = "i_extract" => jobs[j].status = "extracting"
            /\ run[j].pc = "i_convert" => jobs[j].status = "converting"
            /\ jobs[j].status = "completed" => run[j].idx = TotalFiles(j)

\* C5: a merge job that completes has written the statuses Extracting,
\* Merging, Converting, Completed in exactly that order; merge_images is
\* called only once every input has been extracted; a per-file job never
\* has status Merging.
C5_MergePhases ==
    \A j \in DOMAIN run :
        /\ MergeJob(j) =>
              /\ \A k \in Writes(j, "status") :
                    log[j][k].status = "completed" =>
                        StatusWrites(j, k) =
                            <<"extracting", "merging", "converting", "completed">>
              /\ (run[j].pc \in {"m_merge", "m_convert", "m_exit"}
                    \/ jobs[j].status \in {"merging", "converting", "completed"}) =>
                        /\ Len(run[j].all_image_lists) = TotalFiles(j)
                        /\ \A i \in 1..TotalFiles(j) : run[j].all_image_lists[i] # <<>>
        /\ ~MergeJob(j) =>
              /\ jobs[j].status # "merging"
              /\ \A k \in Writes(j, "status") : log[j][k].status # "merging"

C5_Witness ==
    \E j \in DOMAIN run :
        /\ MergeJob(j)
        /\ TotalFiles(j) >= 2
        /\ jobs[j].status = "completed"
        /\ jobs[j].split_count >= 2
        /\ run[j].pc = "done"

\* Job j has recorded a no-images failure for input f.
NoImagesFailure(j, f) ==
    \E k \in Writes(j, "error") : log[j][k].error = Some(<<"No images found in", f>>)

\* C6: when the extraction of an input yields no page, the job is Failed
\* with a no-images error naming that input, no further input is processed,
\* and the job has produced no package.
C6_EmptyExtractionNoPartialOutput ==
    \A j \in DOMAIN run :
        \A f \in FileIds :
            NoImagesFailure(j, f) =>
                /\ jobs[j].status = "failed"
                /\ run[j].pc \in {"i_exit_return", "m_exit_return", "except", "done"}
                /\ run[j].idx < TotalFiles(j)
                /\ run[j].file_ids[run[j].idx + 1] = f
                /\ run[j].kept = <<>>

\* C7: a raised error ends the job as Failed with the error text recorded;
\* a Failed job always has a non-null error; after Failed has been written
\* no other status is written.
C7_FailureRecorded ==
    \A j \in DOMAIN run :
        /\ jobs[j].status = "failed" => jobs[j].error # Null
        /\ (run[j].pc = "done" /\ run[j].raised # Null) =>
              /\ jobs[j].status = "failed"
              /\ jobs[j].error = run[j].raised
        /\ \A a, b \in Writes(j, "status") :
              (a < b /\ log[j][a].status = "failed") => log[j][b].status = "failed"

\* An error raised while packaging, after extraction and batching went well.
C7_Witness ==
    \E j \in DOMAIN run :
        /\ run[j].pc = "done"
        /\ run[j].raised = Some(<<"convert failed">>)
        /\ jobs[j].status = "failed"
        /\ run[j].all_image_lists # <<>>

\* C8: a Completed job has progress 100, a completion time and exactly the
\* packages it produced as output_files, in order; only Completed jobs have
\* a completion time.
C8_CompletedRecord ==
    \A j \in DOMAIN run :
        /\ jobs[j].status = "completed" =>
              /\ jobs[j].progress = Rat(100, 1)
              /\ jobs[j].completed_at # Null
              /\ jobs[j].output_files = run[j].kept
        /\ jobs[j].completed_at # Null => jobs[j].status = "completed"

\* C9: under fair scheduling, with every awaited call returning or raising,
\* every created job eventually is Completed or Failed.
C9_JobsTerminate ==
    \A j \in JobIds :
        (j \in DOMAIN jobs) ~> (j \in DOMAIN jobs /\ jobs[j].status \in Terminal)

\* A job over several inputs that ran to the end of its task.
C9_Witness ==
    \E j \in DOMAIN run :
        /\ TotalFiles(j) >= 2
        /\ run[j].pc = "done"
        /\ run[j].idx = TotalFiles(j)
        /\ jobs[j].status \in Terminal

(***************************************************************************)
(* Properties of the package assembler inside a job.                       *)
(***************************************************************************)
\* The convert() calls of job j in which convert_to_mobi raised ValueError.
TranscodeFailures(j) ==
    {k \in 1..Len(run[j].calls) : run[j].calls[k].outcome = "mobi_fail"}

\* The convert() calls of job j in which convert_to_mobi returned.
TranscodeSuccesses(j) ==
    {k \in 1..Len(run[j].calls) :
        run[j].calls[k].outcome = "ok" /\ run[j].request.output_format # "epub"}

\* C12: with both formats requested, a convert() call whose MOBI transcode
\* fails raises nothing and returns the EPUB it already wrote; a job whose
\* conversion fails does so because create_epub raised, never because of
\* the transcode, so the job still runs on to Completed.
C12_BothTranscodeFailureKeepsEpub ==
    \A j \in DOMAIN run :
        run[j].request.output_format = "both" =>
            /\ \A k \in TranscodeFailures(j) :
                  /\ ~run[j].calls[k].raised
                  /\ run[j].calls[k].files =
                        <<Package(run[j].calls[k].filename, "epub")>>
            /\ run[j].raised = Some(<<"convert failed">>) =>
                  run[j].calls[Len(run[j].calls)].outcome = "raise"
            /\ jobs[j].error = Some(<<"convert failed">>) =>
                  run[j].calls[Len(run[j].calls)].outcome = "raise"

C12_Witness ==
    \E j \in DOMAIN run :
        /\ run[j].request.output_format = "both"
        /\ TranscodeFailures(j) # {}
        /\ run[j].pc = "done"
        /\ jobs[j].status = "completed"
        /\ jobs[j].output_files # <<>>

C14_MobiOnlyReturnsOnlyMobi ==
    \A j \in DOMAIN run :
        run[j].request.output_format = "mobi" =>
            /\ \A k \in TranscodeSuccesses(j) :
                  run[j].calls[k].files =
                      <<Package(run[j].calls[k].filename, "mobi")>>
            /\ TranscodeFailures(j) = {} =>
                  \A i \in 1..Len(jobs[j].output_files) :
                      jobs[j].output_files[i].ext # "epub"

\* C15: in every reachable state a job record whose status is Failed has
\* an empty output_files list.
C15_FailedHasNoOutput ==
    \A j \in DOMAIN jobs :
        jobs[j].status = "failed" => jobs[j].output_files = <<>>

\* C16: a conversion request whose file list is empty, or whose file_order
\* names an id that is not in the session, is rejected: no step creates a
\* job record or a task for such a request.
C16_InvalidRequestRejected ==
    [][\A j \in (DOMAIN jobs' \cup DOMAIN run') \ DOMAIN jobs :
            /\ run'[j].request.file_ids # <<>>
            /\ SeqToSet(run'[j].request.file_order) \subseteq session.files]_vars

\* C17: when a merge-mode job with EPUB-only output completes, split_count
\* is the number of batches and output_files has exactly that many entries,
\* one per batch in batch order; with more than one batch the k-th file name
\* carries the suffix _part0k (so the second one _part02), with a single
\* batch the file name has no part suffix.
C17_MergeSplitCount ==
    \A j \in DOMAIN jobs :
        (MergeJob(j) /\ run[j].request.output_format = "epub"
                     /\ jobs[j].status = "completed") =>
            LET n == Len(run[j].image_batches)
            IN  /\ jobs[j].split_count = n
                /\ Len(jobs[j].output_files) = n
                /\ \A k \in 1..n :
                      jobs[j].output_files[k] =
                          Package([chapter |-> run[j].filename.chapter,
                                   part    |-> IF n > 1 THEN k ELSE 0], "epub")

C17_Witness ==
    \E j \in DOMAIN jobs :
        /\ MergeJob(j)
        /\ run[j].request.output_format = "epub"
        /\ jobs[j].status = "completed"
        /\ jobs[j].split_count = 2
        /\ jobs[j].output_files[2].base.part = 2

(***************************************************************************)
(* Properties of the package titles.                                       *)
(***************************************************************************)
EndsWith(s, suffix) ==
    /\ Len(s) >= Len(suffix)
    /\ SubSeq(s, Len(s) - Len(suffix) + 1, Len(s)) = suffix

\* C18: when a merge is written as more than one part, the title set on the
\* book of part N ends with "(Part N/total_parts)", whatever the series and
\* the title format are; the title of a single-part output has no such
\* suffix.
C18_PartSuffixInTitle ==
    \A k \in 1..Len(cv.titles) :
        IF cv.total_parts > 1
        THEN EndsWith(cv.titles[k], PartSuffix(k, cv.total_parts))
        ELSE ~InList("(Part", cv.titles[k])

(***************************************************************************)
(* Properties of the assembled package.                                    *)
(***************************************************************************)
\* The page documents of the spine, in spine order.
SpinePages == SelectSeq(cv.spine, LAMBDA d : d.doc = "page")

\* The contents of the image items the page document d shows.
ShownBy(d) ==
    {it.content : it \in {x \in cv.items : x.file_name = <<"images", d.page_num>>}}

BlockingNow ==
    up.executing \cup
    {ToThread(run[j].pc) : j \in {i \in DOMAIN run :
        run[i].pc \in {"i_extract", "i_convert", "m_extract", "m_merge", "m_convert"}}}

\* C20: blocking work never runs on the event loop that answers status
\* polls: in every request handler and every job step it is running on a
\* worker thread.
C20_BlockingWorkOffLoop ==
    \A b \in BlockingNow : b.thread = "worker"

(***************************************************************************)
(* Properties of the job registry under concurrent jobs.                   *)
(***************************************************************************)
\* C21: concurrently running jobs do not interact through the registry: a
\* step that changes the record stored under an id is an update made by that
\* job's own run and leaves every other record as it was, and no step
\* removes a record, in every interleaving of job steps and status polls.
C21_JobsDoNotInteract ==
    [][/\ DOMAIN jobs \subseteq DOMAIN jobs'
       /\ \A j \in DOMAIN jobs :
             jobs'[j] # jobs[j] =>
                /\ log'[j] # log[j]
                /\ \A k \in DOMAIN jobs \ {j} : jobs'[k] = jobs[k]]_vars

\* Both jobs are under way, one already past its first update.
C21_Witness ==
    /\ DOMAIN jobs = TwoJobIds
    /\ jobs["j1"].status = "converting"
    /\ jobs["j2"].status = "extracting"
    /\ up.polled

(***************************************************************************)
(* Properties of jobs whose inputs are deleted under them.                 *)
(***************************************************************************)
\* The 1-based positions of job j's inputs whose extraction step (the loop
\* head that looks the file up) the task has not reached yet.
InputsAhead(j) ==
    LET ids == IF run[j].pc = "start"
               THEN (IF run[j].request.file_order # <<>>
                     THEN run[j].request.file_order ELSE run[j].request.file_ids)
               ELSE run[j].file_ids
    IN  IF run[j].pc \in {"start", "i_begin", "m_begin"} THEN 1..Len(ids)
        ELSE IF run[j].pc \in {"i_loop", "m_loop"} THEN (run[j].idx + 1)..Len(ids)
        ELSE IF run[j].pc \in {"i_extract", "i_convert", "i_exit", "m_extract"}
        THEN (run[j].idx + 2)..Len(ids)
        ELSE {}

InputAt(j, k) ==
    IF run[j].pc = "start" /\ run[j].request.file_order = <<>>
    THEN run[j].request.file_ids[k]
    ELSE IF run[j].pc = "start" THEN run[j].request.file_order[k]
    ELSE run[j].file_ids[k]

\* An input job j has not reached yet is gone from the session.
InputDeletedAhead(j) ==
    /\ j \in DOMAIN run
    /\ \E k \in InputsAhead(j) :
          ~session.exists \/ InputAt(j, k) \notin session.files

FailedForGood(j) ==
    /\ j \in DOMAIN run
    /\ run[j].pc = "done"
    /\ jobs[j].status = "failed"
    /\ jobs[j].error # Null

\* Once job j has recorded an error, it writes nothing but Failed.
StopsAtError(j) ==
    \A n \in 1..Len(log[j]) :
        ("error" \in DOMAIN log[j][n] /\ log[j][n].error # Null) =>
            \A m \in (n + 1)..Len(log[j]) :
                /\ "status" \in DOMAIN log[j][m]
                /\ log[j][m].status = "failed"

\* C22: if an input that was in the session when the job was created is
\* deleted (or the whole session is) before the job reaches that input's
\* extraction step, the job ends Failed with an error on its record, and
\* after the failure no later input is processed.
C22_DeletedInputFailsJob ==
    /\ \A j \in JobIds : InputDeletedAhead(j) ~> FailedForGood(j)
    /\ [](\A j \in DOMAIN log : StopsAtError(j))

\* The second input was deleted while the first was being packaged.
C22_Witness ==
    \E j \in DOMAIN run :
        /\ FailedForGood(j)
        /\ run[j].idx = 1
        /\ Len(run[j].file_ids) >= 2
        /\ jobs[j].error = Some(<<"File not found", run[j].file_ids[2]>>)
        /\ run[j].kept # <<>>

(***************************************************************************)
(* Properties of the size estimator.                                       *)
(***************************************************************************)
\* C23: once a MergerService has computed a page's estimate, every later
\* request for the same page returns the same value and the source file is
\* not read again; this includes the pages that could not be decoded the
\* first time.
C23_EstimateComputedOnce ==
    mg.pc = "cache" =>
        \A p \in PagePaths :
            /\ mg.svc.reads[p] <= 1
            /\ \A n \in 1..Len(mg.answers[p]) :
                  mg.answers[p][n] = mg.answers[p][1]

\* C24: estimate_output_size is non-decreasing in each page's on-disk byte
\* size: with the pixel dimensions and the other pages unchanged, the
\* estimate of the list with the larger file is never below the estimate
\* of the list with the smaller one.
C24_EstimateMonotone ==
    mg.pc = "estimate" =>
        \A b \in mg.before, a \in mg.after : a >= b

\* Both estimates are in, the grown page is a decodable one that is
\* downscaled, and the estimate went up.
C24_Witness ==
    /\ mg.pc = "estimate"
    /\ mg.page = 1
    /\ mg.files[1].decodable
    /\ mg.files[1].width > MaxImageWidth
    /\ mg.images = <<1, 2>>
    /\ \E b \in mg.before, a \in mg.after : a > b

(***************************************************************************)
(* Properties of the image pipeline.                                       *)
(***************************************************************************)
InPipeline == "steps" \in DOMAIN cv

\* The record of the named step of the running process_pil_image call.
StepsNamed(name) == {n \in 1..Len(cv.steps) : cv.steps[n].step = name}

\* C25: a page is rotated 90 degrees clockwise if and only if detect_spreads
\* and rotate_spreads are both set and its width/height ratio is strictly
\* above 1.3; a page at ratio 1.3 or below is never rotated; and the
\* rotation comes first: upscaling and fit/fill work on the rotated page.
C25_SpreadRotation ==
    (InPipeline /\ Len(cv.steps) >= 1) =>
        LET first == cv.steps[1]
            wanted == /\ cv.options.detect_spreads
                      /\ cv.options.rotate_spreads
                      /\ cv.input.width * 10 > cv.input.height * 13
        IN  /\ first.step = "rotate"
            /\ first.in = cv.input
            /\ first.out =
                  IF wanted
                  THEN PILImage(cv.input.height, cv.input.width, -90)
                  ELSE cv.input
            /\ \A n \in 2..Len(cv.steps) :
                  /\ cv.steps[n].step # "rotate"
                  /\ cv.steps[n].in = cv.steps[n - 1].out
                  /\ cv.steps[n].out.rotation = first.out.rotation

\* A 14 x 10 spread went through the whole pipeline: turned to 10 x 14,
\* then upscaled.
C25_Witness ==
    /\ InPipeline
    /\ cv.pc = "returned"
    /\ cv.input = PILImage(14, 10, 0)
    /\ cv.steps[1].out = PILImage(10, 14, -90)
    /\ cv.steps[2].step = "upscale"
    /\ cv.steps[2].out.width > 10

\* The upscale step of the running call, and what the lanczos method gives
\* for the same image and target.
UpscaleSteps == {cv.steps[n] : n \in StepsNamed("upscale")}

AiNotUsable == cv.ai \in {"import_error", "unavailable", "fails"}

\* C26: with upscale_method = ai, when the AI upscaler is unavailable or
\* its upscale call fails, the upscale step yields exactly the pixel
\* dimensions of the lanczos path for the same image and target, and no
\* error leaves the step.
C26_AiFallsBackToLanczos ==
    (InPipeline /\ cv.options.upscale_method = "ai_esrgan" /\ AiNotUsable) =>
        /\ \A s \in UpscaleSteps :
              s.out = UpscaleIfNeeded(s.in, cv.target, "lanczos", cv.ai)
        /\ (cv.raised # Null => cv.pc = "raised" /\ StepsNamed("upscale") # {})
        /\ (cv.pc \in {"resize", "encode", "returned"} =>
               StepsNamed("upscale") # {})

\* The upscale call raised for a 300 x 400 page on the 600 x 800 screen and
\* the step returned the page at 600 x 800.
C26_Witness ==
    /\ InPipeline
    /\ cv.options.upscale_method = "ai_esrgan"
    /\ cv.ai = "fails"
    /\ cv.input = PILImage(300, 400, 0)
    /\ cv.target = <<600, 800>>
    /\ \E s \in UpscaleSteps : s.out = PILImage(600, 800, 0)

\* x * t / d rounded up to a whole pixel.
CeilScaled(x, t, d) == (x * t + d - 1) \div d

\* C27: with upscale_method = lanczos and an image smaller than the target
\* in at least one axis, both axes are scaled by max(target_w / w,
\* target_h / h), each resulting dimension rounded up, so the result is at
\* least target_w wide and target_h high and never smaller than the input;
\* when that scale is <= 1, or with upscale_method = none, the step leaves
\* the image unchanged.
C27_LanczosRoundsUp ==
    InPipeline =>
        \A s \in UpscaleSteps :
            LET byWidth == cv.target[1] * s.in.height
                               >= cv.target[2] * s.in.width
                t == IF byWidth THEN cv.target[1] ELSE cv.target[2]
                d == IF byWidth THEN s.in.width ELSE s.in.height
                smaller == \/ s.in.width < cv.target[1]
                           \/ s.in.height < cv.target[2]
            IN  /\ (cv.options.upscale_method = "lanczos" /\ smaller) =>
                      /\ s.out.width = CeilScaled(s.in.width, t, d)
                      /\ s.out.height = CeilScaled(s.in.height, t, d)
                      /\ s.out.width >= cv.target[1]
                      /\ s.out.height >= cv.target[2]
                      /\ s.out.width >= s.in.width
                      /\ s.out.height >= s.in.height
                /\ (cv.options.upscale_method = "none"
                    \/ (cv.options.upscale_method = "lanczos" /\ t <= d)) =>
                      s.out = s.in

ResizeSteps == {cv.steps[n] : n \in StepsNamed("resize")}

\* C28: after the fit/fill step the image fits within the target in both
\* axes, for every input size and option combination.  With fill_screen it
\* is the input scaled by min(target_w / w, target_h / h), to the pixel;
\* without, an image already within the bounds is untouched and any other
\* is only made smaller.
C28_ResizeFitsTarget ==
    InPipeline =>
        \A s \in ResizeSteps :
            LET byWidth == cv.target[1] * s.in.height
                               <= cv.target[2] * s.in.width
                t == IF byWidth THEN cv.target[1] ELSE cv.target[2]
                d == IF byWidth THEN s.in.width ELSE s.in.height
                within == /\ s.in.width <= cv.target[1]
                          /\ s.in.height <= cv.target[2]
            IN  /\ s.out.width <= cv.target[1]
                /\ s.out.height <= cv.target[2]
                /\ s.out.width >= 1
                /\ s.out.height >= 1
                /\ cv.options.fill_screen =>
                      /\ s.out.width * d <= s.in.width * t
                      /\ s.in.width * t <= (s.out.width + 1) * d
                      /\ s.out.height * d <= s.in.height * t
                      /\ s.in.height * t <= (s.out.height + 1) * d
                /\ ~cv.options.fill_screen =>
                      /\ within => s.out = s.in
                      /\ s.out.width <= s.in.width
                      /\ s.out.height <= s.in.height

\* A 1300 x 1000 spread, neither rotated nor upscaled, was scaled by
\* 600 / 1300 to fill the 600 x 800 screen.
C28_Witness ==
    /\ InPipeline
    /\ cv.options.fill_screen
    /\ cv.target = <<600, 800>>
    /\ \E s \in ResizeSteps :
          /\ s.in = PILImage(1300, 1000, 0)
          /\ s.out = PILImage(600, 461, 0)

\* Sum of the estimates of the pages of one batch.
RECURSIVE BatchEstimate(_)
BatchEstimate(batch) ==
    IF batch = <<>> THEN 0
    ELSE EstimateSingleImageSize(Head(batch)) + BatchEstimate(Tail(batch))

\* C29: every batch the batcher returns that holds two or more pages
\* respects the budget, 50,000 plus the sum of its pages' estimates being
\* at most max_bytes; only a batch of a single page may exceed it.
C29_MultiPageBatchWithinBudget ==
    MgDone =>
        \A b \in 1..Len(mg.result) :
            Len(mg.result[b]) >= 2 =>
                50000 + BatchEstimate(mg.result[b]) <= mg.max_size

\* A single oversize page in a batch of its own, followed by a batch of
\* three pages that fills the budget to the byte.
C29_Witness ==
    /\ MgDone
    /\ Len(mg.result) >= 2
    /\ Len(mg.result[1]) = 1
    /\ 50000 + BatchEstimate(mg.result[1]) > mg.max_size
    /\ Len(mg.result[2]) = 3
    /\ 50000 + BatchEstimate(mg.result[2]) = mg.max_size

(***************************************************************************)
(* Properties of the per-file loop.                                        *)
(***************************************************************************)
PerFileNoChapter(j) ==
    /\ ~run[j].request.merge_files
    /\ run[j].request.chapter_start = Null

\* C30: in per-file mode with no chapter number in the request, the i-th
\* input (1-based) is packaged with chapter number i, so the package names
\* of one job under the default naming pattern are pairwise distinct and no
\* package overwrites another; packaging one input leaves the metadata used
\* for the next as the request gave it.
C30_PerFileChapterNumbers ==
    \A j \in DOMAIN run :
        PerFileNoChapter(j) =>
            /\ \A n \in 1..Len(run[j].calls) :
                  run[j].calls[n].filename.chapter = n
            /\ \A n, k \in 1..Len(run[j].calls) :
                  n # k => run[j].calls[n].filename # run[j].calls[k].filename
            /\ (run[j].pc = "i_loop" /\ run[j].idx < Len(run[j].file_ids)) =>
                  run[j].chapter_start = Null

====
